---------------------------- MODULE Spec2Model ----------------------------
(***************************************************************************)
(* A model of kash (agent-forge): the runtime HTTP server (middleware      *)
(* stack, chat completions route, hybrid search, streaming), the embedding *)
(* function of the vector store, the triple parser and graph insert, and   *)
(* the build pipeline (sequential embedding, triple extraction).           *)
(*                                                                         *)
(* Strings are modelled as sequences of symbols, so that prefix tests,     *)
(* trimming and concatenation are computed and not assumed: "" is << >>.   *)
(***************************************************************************)
EXTENDS Integers, Sequences, FiniteSets, TLC

VARIABLES
    \* ---- runtime server (internal/server) ----
    apiKey,        \* Server.apiKey, from AGENT_API_KEY ("" = open access)
    systemPrompt,  \* agentCfg.Agent.SystemPrompt
    reranker,      \* Server.reranker is set (a reranker base URL is configured)
    pc,            \* position of the request in the middleware stack / handler
    req,           \* the request line and headers: method, path, Authorization
    body,          \* the decoded request body of the chat route
    status,        \* statusWriter.status / response status
    respBody,      \* what kind of body was written
    corsHeaders,   \* Access-Control-* headers set on the response
    logLines,      \* lines emitted by display.LogRequest for this request
    handlerRan,    \* which mux handler was entered
    userQuery,     \* extractLastUserMessage(req.Messages)
    vecRes,        \* result of vectorStore.Query
    graphRes,      \* result of graphDB.Search
    retrievedCtx,  \* result of hybridSearch, after the caller's error handling
    calls,         \* sequence of upstream/store calls made for this request
    llmSent,       \* the messages of the upstream chat call
    llmOutcome,    \* what the upstream chat completion returned (non-streaming)
    llmAnswer,     \* choices[0].message.content of the response written
    out,           \* SSE events written to the client
    upstream,      \* chunks the upstream stream has produced so far
    upstreamEnd,   \* how the upstream stream ended, as stream.Recv reported it
    clientGone,    \* the client disconnected: r.Context() is cancelled
    readsAfterGone,\* stream.Recv calls that returned a chunk after the disconnect
    streamId,      \* id generated once by handleStreamingCompletion
    clock,         \* time.Now().UnixNano(), advancing
    slog,          \* error/warn records written to s.log
    \* ---- vector store embedding function (internal/vector) ----
    dimensions,    \* cfg.Dimensions (D)
    collection,    \* documents of the chromem collection: id and embedding
    lastUp,        \* the last response of the embeddings API
    lastErr,       \* the last AddDocument returned an error
    \* ---- triple parser and graph DB (internal/llm, internal/graph) ----
    gpc,           \* "idle", or "parsed" when ExtractTriples has returned triples
    triples,       \* the triples parseTriples returned
    quads,         \* quads in the cayley store, in insertion order
    graphErr,      \* the last ExtractTriples / AddTriples returned an error
    searchQuery,   \* query of the last DB.Search
    searchTopK,    \* topK of the last DB.Search
    searchResults, \* results of the last DB.Search
    searchErr,     \* the last DB.Search returned an error
    \* ---- build pipeline (cmd/build.go, vector.addChunksSequential) ----
    bpc,           \* position in runBuild
    parallel,      \* AgentYAMLParallelEmbedding("agent.yaml")
    nChunks,       \* len(allChunks)
    batchStart,    \* i of the embedding loop
    attempt,       \* attempt of the inner retry loop
    embedded,      \* indices of chunks added to the vector index
    embedCalls,    \* AddDocuments calls: <<batch start, attempt>>
    waits,         \* backoff waits, in seconds
    ctxDone,       \* ctx.Done() is closed
    buildErr,      \* runBuild's returned error ("" = nil)
    group,         \* i of the triple-extraction loop
    xAttempt,      \* attempt of the extraction retry loop
    extractCalls,  \* ExtractTriples calls: <<group start, attempt>>
    groupsAdded,   \* groups whose triples were inserted
    warnings,      \* display.StepWarn records
    manifestWritten,\* agent.yaml was rewritten
    \* ---- chunker (internal/chunker) and step 2 of runBuild ----
    copts,         \* Chunker.opts: ChunkSize and Overlap
    documents,     \* the documents loaded from the data directory
    allChunks,     \* allChunks of runBuild
    chunked,       \* step 2 has run
    indexIds,      \* ids of the documents in the vector index
    \* ---- agent.yaml and step 5 of runBuild ----
    agentYaml0,    \* agent.yaml as it was when the build started
    agentYaml,     \* agent.yaml: its mapping, and whether it has comments
    mcpDesc,       \* mcpDesc of runBuild
    mpc,           \* position in step 5: "idle", "start", "described", "done"
    \* ---- JSON-RPC endpoints /mcp and /rpc/agent (internal/server) ----
    rpcReq,        \* the POST being served: endpoint and decoded body
    rpcEnv,        \* what the stores and the LLM answer for this request
    rpcOut,        \* the JSON-RPC responses written to the client
    \* ---- upstream chat call (internal/llm) ----
    chatReq,       \* the openai.ChatCompletionRequest decoded from the client
    upstreamReq,   \* the ChatCompletionRequest passed to the go-openai client
    \* ---- two builds in a row on one project directory ----
    project,       \* the chunks of the documents and the upstream's fixed answers
    runs,          \* builds finished so far
    vectorDocs,    \* ids of the documents persisted in data/memory.chromem
    graphQuads,    \* quads persisted in data/knowledge.cayley
    counts,        \* vs.Count() and gdb.Count() at the end of each build
    runErrs,       \* error returned by each build ("" = nil)
    \* ---- calls of the chunker's entry points (internal/chunker) ----
    entry,         \* the call: entry point, chunk size, overlap, text, source
    result,        \* what the call returned: chunks and error
    maxTokens,     \* argument of OptionsFromMaxTokens
    tuned,         \* the Options it returned
    wOpts,         \* opts of the Chunker whose ChunkText loop runs, and the overlap asked for
    wRunes,        \* runes of ChunkText
    wStart,        \* start of the ChunkText loop
    windows,       \* the windows <<start, end>> the loop has cut
    wDone,         \* the loop has ended
    \* ---- A2A agent.query with and without history ----
    queryPair,     \* two agent.query params that differ only in history
    pairOut,       \* what each of them sent upstream and returned
    \* ---- MCP tools/call and top_k ----
    toolCall,      \* arguments of the call and the hits the index holds
    toolOut        \* the vector hits in the returned context

serverVars == <<apiKey, systemPrompt, reranker, pc, req, body, status, respBody, corsHeaders,
                logLines, handlerRan, userQuery, vecRes, graphRes, retrievedCtx,
                calls, llmSent, llmOutcome, llmAnswer, out, upstream, upstreamEnd,
                clientGone, readsAfterGone, streamId, clock, slog>>
embedVars == <<dimensions, collection, lastUp, lastErr>>
searchVars == <<searchQuery, searchTopK, searchResults, searchErr>>
graphVars == <<gpc, triples, quads, graphErr, searchVars>>
buildVars == <<bpc, parallel, nChunks, batchStart, attempt, embedded, embedCalls, waits,
               ctxDone, buildErr, group, xAttempt, extractCalls, groupsAdded,
               warnings, manifestWritten>>
chunkVars == <<copts, documents, allChunks, chunked, indexIds>>
manifestVars == <<agentYaml0, agentYaml, mcpDesc, mpc>>
rpcVars == <<rpcReq, rpcEnv, rpcOut>>
upVars == <<chatReq, upstreamReq>>
rerunVars == <<project, runs, vectorDocs, graphQuads, counts, runErrs>>
lateVars == <<rpcVars, upVars, rerunVars>>
entryVars == <<entry, result>>
tuneVars == <<maxTokens, tuned>>
loopVars == <<wOpts, wRunes, wStart, windows, wDone>>
pairVars == <<queryPair, pairOut>>
toolVars == <<toolCall, toolOut>>
finalVars == <<entryVars, tuneVars, loopVars, pairVars, toolVars>>
pureVars == <<chunkVars, manifestVars, lateVars, finalVars>>
vars == <<serverVars, embedVars, graphVars, buildVars, pureVars>>

-----------------------------------------------------------------------------
(* Bounds of the model *)

\* longest messages list of a chat request
MaxMsgs == 2
\* most chunks an upstream stream produces
MaxChunks == 2

-----------------------------------------------------------------------------
(* Strings as sequences *)

HasPrefix(s, p) == Len(s) >= Len(p) /\ SubSeq(s, 1, Len(p)) = p

TrimPrefix(s, p) == IF HasPrefix(s, p) THEN SubSeq(s, Len(p) + 1, Len(s)) ELSE s

SeqsUpTo(S, n) == UNION {[1..k -> S] : k \in 0..n}

\* the constant prefix of authMiddleware
BearerPrefix == <<"B", "e", "a", "r", "e", "r", " ">>

-----------------------------------------------------------------------------
(* Inputs of the runtime server *)

TheKey == <<"k", "1">>

ApiKeys == {<< >>, TheKey}

SystemPrompts == {<< >>, <<"SP">>}

Methods == {"GET", "POST", "OPTIONS"}

Paths == {"/health", "/health/", "/v1/chat/completions", "/mcp", "/rpc/agent", "/other"}

AuthHeaders ==
    { << >>,
      BearerPrefix \o TheKey,
      BearerPrefix \o TheKey \o <<"x">>,
      BearerPrefix \o <<"k">>,
      <<"b", "e", "a", "r", "e", "r", " ">> \o TheKey,
      TheKey }

Roles == {"system", "user", "assistant"}

\* the i-th message of a request carries a content of its own
MsgNames == <<"m1", "m2", "m3", "m4">>

Msg(role, i) == [role |-> role, content |-> <<MsgNames[i]>>]

MessageLists == {[i \in 1..Len(rs) |-> Msg(rs[i], i)] : rs \in SeqsUpTo(Roles, MaxMsgs)}

Bodies == {[ok |-> FALSE, messages |-> << >>, stream |-> FALSE]}
          \cup [ok : {TRUE}, messages : MessageLists, stream : BOOLEAN]

NoBody == [ok |-> FALSE, messages |-> << >>, stream |-> FALSE]

\* results of the stores for a non-empty query
VectorHits == {<< >>, <<"h1", "h2">>}

\* SearchResult.Similarity of a hit: the index returns the closest hit first
Similarity(hit) == IF hit = "h1" THEN 9 ELSE 5

\* relevance_score the rerank API gives a hit's content
RelevanceScore(hit) == IF hit = "h1" THEN 1 ELSE 2

GraphFacts == {<< >>, <<"f1">>}

NoRes == [err |-> FALSE, items |-> << >>]

NoOutcome == [err |-> FALSE, answer |-> << >>]

Deltas == {<<"x">>, <<"y">>, << >>}

-----------------------------------------------------------------------------
(* Pure functions of the runtime server *)

RECURSIVE extractLastUserMessage(_)
extractLastUserMessage(messages) ==
    IF messages = << >> THEN << >>
    ELSE IF messages[Len(messages)].role = "user"
         THEN messages[Len(messages)].content
         ELSE extractLastUserMessage(SubSeq(messages, 1, Len(messages) - 1))

ContextHeader == "Here is relevant context from the knowledge base:\n\n"

\* an augmentation that forwards the request's system messages too
buildAugmentedMessages_keepSystem(prompt, ctx, original) ==
    (IF prompt # << >> THEN <<[role |-> "system", content |-> prompt]>> ELSE << >>)
    \o (IF ctx # << >>
        THEN <<[role |-> "system", content |-> <<ContextHeader>> \o ctx]>>
        ELSE << >>)
    \o original

buildAugmentedMessages(prompt, ctx, original) ==
    (IF prompt # << >> THEN <<[role |-> "system", content |-> prompt]>> ELSE << >>)
    \o (IF ctx # << >>
        THEN <<[role |-> "system", content |-> <<ContextHeader>> \o ctx]>>
        ELSE << >>)
    \o SelectSeq(original, LAMBDA m : m.role # "system")

\* the block hybridSearch formats from the vector hits and graph.FormatResults
FormatContext(vec, facts) ==
    (IF Len(vec) > 0 THEN <<"## Relevant Knowledge">> \o vec ELSE << >>)
    \o (IF Len(facts) > 0
        THEN <<"## Knowledge Graph Context", "Knowledge Graph Facts:">> \o facts
        ELSE << >>)

\* Store.Query: an empty query is an error; otherwise the embedding call or the
\* collection query may fail, or hits come back
StoreQueryResults(query) ==
    IF query = << >> THEN {[err |-> TRUE, items |-> << >>]}
    ELSE {[err |-> TRUE, items |-> << >>]} \cup [err : {FALSE}, items : VectorHits]

\* DB.Search: an empty query is the only error
DBSearchResults(query) ==
    IF query = << >> THEN {[err |-> TRUE, items |-> << >>]}
    ELSE [err : {FALSE}, items : GraphFacts]

\* a bearer check that accepts any header starting with "Bearer <key>"
AuthOK_prefixOnly(auth, key) == HasPrefix(auth, BearerPrefix \o key)

\* the bearer check of authMiddleware
AuthOK(auth, key) == HasPrefix(auth, BearerPrefix) /\ TrimPrefix(auth, BearerPrefix) = key

DeltaEvent(id, delta) == [type |-> "delta", id |-> id, content |-> delta]

ErrorEvent == [type |-> "error", id |-> -1, content |-> << >>]

DoneEvent == [type |-> "done", id |-> -1, content |-> << >>]

-----------------------------------------------------------------------------
(* The runtime server: one request at a time through                       *)
(* loggingMiddleware(corsMiddleware(authMiddleware(mux)))                  *)

restIdle == <<embedVars, graphVars, buildVars, pureVars>>

InitRequestState ==
    /\ pc = "idle"
    /\ req = [method |-> "GET", path |-> "/health", auth |-> << >>]
    /\ body = NoBody
    /\ status = 0
    /\ respBody = "none"
    /\ corsHeaders = FALSE
    /\ logLines = 0
    /\ handlerRan = "none"
    /\ userQuery = << >>
    /\ vecRes = NoRes
    /\ graphRes = NoRes
    /\ retrievedCtx = << >>
    /\ calls = << >>
    /\ llmSent = << >>
    /\ llmOutcome = NoOutcome
    /\ llmAnswer = << >>
    /\ out = << >>
    /\ upstream = << >>
    /\ upstreamEnd = "none"
    /\ clientGone = FALSE
    /\ readsAfterGone = 0
    /\ streamId = -1
    /\ clock = 0
    /\ slog = {}

\* the per-request state of a fresh request
FreshRequest(r) ==
    /\ req' = r
    /\ body' = NoBody
    /\ respBody' = "none"
    /\ corsHeaders' = FALSE
    /\ logLines' = 0
    /\ handlerRan' = "none"
    /\ userQuery' = << >>
    /\ vecRes' = NoRes
    /\ graphRes' = NoRes
    /\ retrievedCtx' = << >>
    /\ calls' = << >>
    /\ llmSent' = << >>
    /\ llmOutcome' = NoOutcome
    /\ llmAnswer' = << >>
    /\ out' = << >>
    /\ upstream' = << >>
    /\ upstreamEnd' = "none"
    /\ clientGone' = FALSE
    /\ readsAfterGone' = 0
    /\ streamId' = -1
    /\ clock' = 0
    /\ slog' = {}

\* a request arrives; loggingMiddleware wraps the writer (status 200) and calls next
loggingMiddleware ==
    /\ pc = "idle"
    /\ \E m \in Methods, p \in Paths, a \in AuthHeaders :
          FreshRequest([method |-> m, path |-> p, auth |-> a])
    /\ pc' = "cors"
    /\ status' = 200
    /\ UNCHANGED <<apiKey, systemPrompt, reranker, restIdle>>

\* the request is over; the server waits for the next one
serveNext ==
    /\ pc = "done"
    /\ FreshRequest([method |-> "GET", path |-> "/health", auth |-> << >>])
    /\ pc' = "idle"
    /\ status' = 0
    /\ UNCHANGED <<apiKey, systemPrompt, reranker, restIdle>>

chatVars == <<body, userQuery, vecRes, graphRes, retrievedCtx, calls, llmSent,
              llmOutcome, llmAnswer,
              out, upstream, upstreamEnd, clientGone, readsAfterGone, streamId, clock, slog>>

\* corsMiddleware handing a preflight on to the next handler
corsMiddleware_passOptions ==
    /\ pc = "cors"
    /\ corsHeaders' = TRUE
    /\ status' = status
    /\ pc' = "auth"
    /\ UNCHANGED <<apiKey, systemPrompt, reranker, req, respBody, logLines, handlerRan, chatVars,
                   restIdle>>

corsMiddleware ==
    /\ pc = "cors"
    /\ corsHeaders' = TRUE
    /\ IF req.method = "OPTIONS"
       THEN status' = 204 /\ pc' = "logret"
       ELSE status' = status /\ pc' = "auth"
    /\ UNCHANGED <<apiKey, systemPrompt, reranker, req, respBody, logLines, handlerRan, chatVars,
                   restIdle>>

\* whether authMiddleware hands the request on to the mux
AuthPasses(key, r) ==
    \/ key = << >>
    \/ r.path = "/health"
    \/ r.method = "OPTIONS"
    \/ AuthOK(r.auth, key)

authMiddleware ==
    /\ pc = "auth"
    /\ IF AuthPasses(apiKey, req)
       THEN pc' = "mux" /\ UNCHANGED <<status, respBody>>
       ELSE status' = 401 /\ respBody' = "json_error" /\ pc' = "logret"
    /\ UNCHANGED <<apiKey, systemPrompt, reranker, req, corsHeaders, logLines, handlerRan,
                   chatVars, restIdle>>

\* the patterns registered by registerRoutes; http.ServeMux answers 404 otherwise
Routes == {"/health", "/v1/chat/completions", "/mcp", "/rpc/agent"}

notFound ==
    /\ pc = "mux"
    /\ req.path \notin Routes
    /\ status' = 404
    /\ respBody' = "plain_text"
    /\ pc' = "logret"
    /\ UNCHANGED <<apiKey, systemPrompt, reranker, req, corsHeaders, logLines, handlerRan,
                   chatVars, restIdle>>

handleHealth ==
    /\ pc = "mux"
    /\ req.path = "/health"
    /\ handlerRan' = "handleHealth"
    /\ respBody' = "json_health"
    /\ pc' = "logret"
    /\ UNCHANGED <<apiKey, systemPrompt, reranker, req, status, corsHeaders, logLines, chatVars,
                   restIdle>>

handleMCP ==
    /\ pc = "mux"
    /\ req.path = "/mcp"
    /\ handlerRan' = "handleMCP"
    /\ CASE req.method = "GET" -> respBody' = "sse" /\ status' = status
         [] req.method = "POST" -> respBody' = "json_rpc" /\ status' = status
         [] OTHER -> respBody' = "plain_text" /\ status' = 405
    /\ pc' = "logret"
    /\ UNCHANGED <<apiKey, systemPrompt, reranker, req, corsHeaders, logLines, chatVars, restIdle>>

handleA2A ==
    /\ pc = "mux"
    /\ req.path = "/rpc/agent"
    /\ handlerRan' = "handleA2A"
    /\ IF req.method # "POST"
       THEN respBody' = "plain_text" /\ status' = 405
       ELSE respBody' = "json_rpc" /\ status' = status
    /\ pc' = "logret"
    /\ UNCHANGED <<apiKey, systemPrompt, reranker, req, corsHeaders, logLines, chatVars, restIdle>>

\* handleChatCompletions up to the call of hybridSearch
handleChatCompletions ==
    /\ pc = "mux"
    /\ req.path = "/v1/chat/completions"
    /\ handlerRan' = "handleChatCompletions"
    /\ IF req.method # "POST"
       THEN /\ status' = 405 /\ respBody' = "plain_text" /\ pc' = "logret"
            /\ UNCHANGED <<body, userQuery>>
       ELSE \E b \in Bodies :
              /\ body' = b
              /\ IF ~b.ok
                 THEN /\ status' = 400 /\ respBody' = "plain_text" /\ pc' = "logret"
                      /\ UNCHANGED userQuery
                 ELSE /\ userQuery' = extractLastUserMessage(b.messages)
                      /\ pc' = "vector"
                      /\ UNCHANGED <<status, respBody>>
    /\ UNCHANGED <<apiKey, systemPrompt, reranker, req, corsHeaders, logLines, vecRes, graphRes,
                   retrievedCtx, calls, llmSent, llmOutcome, llmAnswer, out, upstream, upstreamEnd,
                   clientGone, readsAfterGone, streamId, clock, slog, restIdle>>

\* a vector query whose error fails the request
hybridSearchVector_fatal ==
    /\ pc = "vector"
    /\ calls' = Append(calls, "vector")
    /\ \E r \in StoreQueryResults(userQuery) :
          /\ vecRes' = r
          /\ IF r.err
             THEN /\ status' = 500 /\ respBody' = "plain_text"
                  /\ slog' = slog \cup {"vector search failed", "hybrid search failed"}
                  /\ pc' = "logret"
             ELSE /\ UNCHANGED <<status, respBody, slog>>
                  /\ pc' = "graph"
    /\ UNCHANGED <<apiKey, systemPrompt, reranker, req, body, corsHeaders, retrievedCtx,
                   logLines, handlerRan, userQuery, graphRes, llmSent, llmOutcome,
                   llmAnswer, out, upstream, upstreamEnd, clientGone, readsAfterGone,
                   streamId, clock, restIdle>>

\* hybridSearch, first half: vectorStore.Query; an error ends hybridSearch, and
\* handleChatCompletions goes on with an empty context
hybridSearchVector ==
    /\ pc = "vector"
    /\ calls' = Append(calls, "vector")
    /\ \E r \in StoreQueryResults(userQuery) :
          /\ vecRes' = r
          /\ IF r.err
             THEN /\ retrievedCtx' = << >>
                  /\ slog' = slog \cup {"vector search failed", "hybrid search failed"}
                  /\ pc' = "llm"
             ELSE /\ UNCHANGED <<retrievedCtx, slog>>
                  /\ pc' = "graph"
    /\ UNCHANGED <<apiKey, systemPrompt, reranker, req, body, status, respBody, corsHeaders,
                   logLines, handlerRan, userQuery, graphRes, llmSent, llmOutcome, llmAnswer, out,
                   upstream, upstreamEnd, clientGone, readsAfterGone, streamId, clock, restIdle>>

\* hybridSearch, second half: graphDB.Search (its error is non-fatal) and the
\* formatting of the context block
hybridSearchGraph ==
    /\ pc = "graph"
    /\ calls' = Append(calls, "graph")
    /\ \E r \in DBSearchResults(userQuery) :
          /\ graphRes' = r
          /\ slog' = IF r.err THEN slog \cup {"graph search failed"} ELSE slog
          /\ retrievedCtx' = FormatContext(vecRes.items, IF r.err THEN << >> ELSE r.items)
    /\ pc' = "llm"
    /\ UNCHANGED <<apiKey, systemPrompt, reranker, req, body, status, respBody, corsHeaders,
                   logLines, handlerRan, userQuery, vecRes, llmSent, llmOutcome, llmAnswer, out,
                   upstream, upstreamEnd, clientGone, readsAfterGone, streamId, clock, restIdle>>

\* outcomes of the upstream chat completion: an answer, an empty answer
\* (ErrEmptyResponse) or an error
LLMOutcomes == {[err |-> FALSE, answer |-> <<"A">>],
                [err |-> FALSE, answer |-> << >>],
                [err |-> TRUE, answer |-> << >>]}

\* the non-streaming branch: ChatWithContext(ctx, augmented, "")
chatNonStreaming ==
    /\ pc = "llm"
    /\ ~body.stream
    /\ llmSent' = buildAugmentedMessages(systemPrompt, retrievedCtx, body.messages)
    /\ calls' = Append(calls, "llm")
    /\ \E o \in LLMOutcomes :
          /\ llmOutcome' = o
          /\ IF o.err \/ o.answer = << >>
             THEN /\ status' = 502 /\ respBody' = "plain_text"
                  /\ slog' = slog \cup {"LLM call failed"}
                  /\ UNCHANGED llmAnswer
             ELSE /\ llmAnswer' = o.answer
                  /\ respBody' = "json_completion"
                  /\ UNCHANGED <<status, slog>>
    /\ pc' = "logret"
    /\ UNCHANGED <<apiKey, systemPrompt, reranker, req, body, corsHeaders, logLines, handlerRan,
                   userQuery, vecRes, graphRes, retrievedCtx, out, upstream, upstreamEnd,
                   clientGone, readsAfterGone, streamId, clock, restIdle>>

\* handleStreamingCompletion up to CreateChatCompletionStream
handleStreamingCompletion ==
    /\ pc = "llm"
    /\ body.stream
    /\ respBody' = "sse"
    /\ streamId' = clock
    /\ clock' = clock + 1
    /\ llmSent' = buildAugmentedMessages(systemPrompt, retrievedCtx, body.messages)
    /\ calls' = Append(calls, "llm")
    /\ \/ /\ pc' = "recv"
          /\ UNCHANGED <<out, slog>>
       \/ /\ slog' = slog \cup {"streaming LLM error"}
          /\ out' = Append(out, ErrorEvent)
          /\ pc' = "logret"
    /\ UNCHANGED <<apiKey, systemPrompt, reranker, req, body, status, corsHeaders, logLines,
                   handlerRan, userQuery, vecRes, graphRes, retrievedCtx, llmOutcome, llmAnswer,
                   upstream, upstreamEnd, clientGone, readsAfterGone, restIdle>>

\* what ChatCompletionStream returns for an error of stream.Recv
StreamRecvReturn(e) ==
    CASE e = "canceled" -> "nil"
      [] e = "EOF" -> "nil"
      [] OTHER -> "error"

\* the handler's callback: one data event per delta
StreamHandler(events, id, delta) == Append(events, DeltaEvent(id, delta))

\* a tail that writes [DONE] after the error event as well
StreamFinish_doneAfterError(events, ret) ==
    IF ret = "error" THEN Append(Append(events, ErrorEvent), DoneEvent)
    ELSE Append(events, DoneEvent)

\* the tail of handleStreamingCompletion, after ChatCompletionStream returned
StreamFinish(events, ret) ==
    IF ret = "error" THEN Append(events, ErrorEvent) ELSE Append(events, DoneEvent)

\* one stream.Recv of the loop of ChatCompletionStream that yields a chunk
streamRecvChunk ==
    /\ pc = "recv"
    /\ Len(upstream) < MaxChunks
    /\ \E d \in Deltas :
          /\ upstream' = Append(upstream, d)
          /\ out' = IF d # << >> THEN StreamHandler(out, streamId, d) ELSE out
    /\ clock' = clock + 1
    /\ readsAfterGone' = IF clientGone THEN readsAfterGone + 1 ELSE readsAfterGone
    /\ UNCHANGED <<apiKey, systemPrompt, reranker, pc, req, body, status, respBody, corsHeaders,
                   logLines, handlerRan, userQuery, vecRes, graphRes, retrievedCtx,
                   calls, llmSent, llmOutcome, llmAnswer, upstreamEnd, clientGone, streamId, slog,
                   restIdle>>

\* one stream.Recv that returns an error: io.EOF, a failure of the upstream,
\* or context.Canceled once the client is gone
streamRecvEnd ==
    /\ pc = "recv"
    /\ \E e \in {"EOF", "failed"} \cup (IF clientGone THEN {"canceled"} ELSE {}) :
          /\ upstreamEnd' = e
          /\ out' = StreamFinish(out, StreamRecvReturn(e))
          /\ slog' = IF StreamRecvReturn(e) = "error"
                     THEN slog \cup {"streaming LLM error"} ELSE slog
    /\ pc' = "logret"
    /\ UNCHANGED <<apiKey, systemPrompt, reranker, req, body, status, respBody, corsHeaders,
                   logLines, handlerRan, userQuery, vecRes, graphRes, retrievedCtx,
                   calls, llmSent, llmOutcome, llmAnswer, upstream, clientGone, readsAfterGone,
                   streamId, clock, restIdle>>

\* the client closes the connection while the response streams
clientDisconnect ==
    /\ pc = "recv"
    /\ ~clientGone
    /\ clientGone' = TRUE
    /\ UNCHANGED <<apiKey, systemPrompt, reranker, pc, req, body, status, respBody, corsHeaders,
                   logLines, handlerRan, userQuery, vecRes, graphRes, retrievedCtx,
                   calls, llmSent, llmOutcome, llmAnswer, out, upstream, upstreamEnd, readsAfterGone,
                   streamId, clock, slog, restIdle>>

\* back in loggingMiddleware: display.LogRequest with the captured status
LogRequest ==
    /\ pc = "logret"
    /\ logLines' = logLines + 1
    /\ pc' = "done"
    /\ UNCHANGED <<apiKey, systemPrompt, reranker, req, body, status, respBody, corsHeaders,
                   handlerRan, chatVars, restIdle>>

-----------------------------------------------------------------------------
(* Idle values of the parts a specification does not exercise *)

EmbedIdle ==
    /\ dimensions = 0
    /\ collection = {}
    /\ lastUp = [ok |-> FALSE, vec |-> << >>]
    /\ lastErr = FALSE

GraphIdle ==
    /\ gpc = "idle"
    /\ triples = << >>
    /\ quads = << >>
    /\ graphErr = FALSE
    /\ searchQuery = << >>
    /\ searchTopK = 0
    /\ searchResults = << >>
    /\ searchErr = FALSE

BuildIdle ==
    /\ bpc = "idle"
    /\ parallel = FALSE
    /\ nChunks = 0
    /\ batchStart = 0
    /\ attempt = 0
    /\ embedded = {}
    /\ embedCalls = << >>
    /\ waits = << >>
    /\ ctxDone = FALSE
    /\ buildErr = ""
    /\ group = 0
    /\ xAttempt = 0
    /\ extractCalls = << >>
    /\ groupsAdded = {}
    /\ warnings = {}
    /\ manifestWritten = FALSE

ChunkIdle ==
    /\ copts = [ChunkSize |-> 1, Overlap |-> 0]
    /\ documents = << >>
    /\ allChunks = << >>
    /\ chunked = FALSE
    /\ indexIds = {}

\* a YAML mapping without keys
EmptyMap == [k \in {} |-> << >>]

ManifestIdle ==
    /\ agentYaml0 = [config |-> EmptyMap, comments |-> FALSE]
    /\ agentYaml = [config |-> EmptyMap, comments |-> FALSE]
    /\ mcpDesc = << >>
    /\ mpc = "idle"

\* the JSON value null as a request or response id
NullId == [kind |-> "null", text |-> << >>, bits |-> << >>]

NoParams == [shape |-> "absent", query |-> "absent"]

RpcIdle ==
    /\ rpcReq = [endpoint |-> "/mcp", parses |-> FALSE, id |-> NullId,
                 method |-> "", params |-> NoParams]
    /\ rpcEnv = [vectorErr |-> FALSE, llmErr |-> FALSE]
    /\ rpcOut = << >>

\* no upstream call was made
NoCall == [sent |-> FALSE, stream |-> FALSE, temperature |-> 0, top_p |-> 0, max_tokens |-> 0]

UpstreamIdle ==
    /\ chatReq = [stream |-> FALSE, temperature |-> 0, top_p |-> 0, max_tokens |-> 0]
    /\ upstreamReq = NoCall

RerunIdle ==
    /\ project = [chunkIds |-> << >>, rejected |-> {}, groups |-> << >>,
                  parallel |-> FALSE, freshCollection |-> FALSE, duplicates |-> "reject"]
    /\ runs = 0
    /\ vectorDocs = << >>
    /\ graphQuads = << >>
    /\ counts = << >>
    /\ runErrs = << >>

LateIdle == RpcIdle /\ UpstreamIdle /\ RerunIdle

NoResult == [returned |-> FALSE, err |-> "", chunks |-> << >>]

EntryIdle ==
    /\ entry = [fn |-> "none", chunkSize |-> 1, overlap |-> 0, text |-> << >>,
                source |-> << >>]
    /\ result = NoResult

TuneIdle ==
    /\ maxTokens = 0
    /\ tuned = [set |-> FALSE, ChunkSize |-> 0, Overlap |-> 0]

LoopIdle ==
    /\ wOpts = [ChunkSize |-> 1, Overlap |-> 0, asked |-> 0]
    /\ wRunes = << >>
    /\ wStart = 0
    /\ windows = << >>
    /\ wDone = FALSE

PairIdle ==
    /\ queryPair = << >>
    /\ pairOut = << >>

ToolIdle ==
    /\ toolCall = [top_k |-> 0, stored |-> 0]
    /\ toolOut = [served |-> FALSE, err |-> FALSE, hits |-> 0]

FinalIdle == EntryIdle /\ TuneIdle /\ LoopIdle /\ PairIdle /\ ToolIdle

PureIdle == ChunkIdle /\ ManifestIdle /\ LateIdle /\ FinalIdle

-----------------------------------------------------------------------------
(* Specification of the runtime server *)

Init ==
    /\ apiKey \in ApiKeys
    /\ systemPrompt \in SystemPrompts
    /\ reranker = FALSE
    /\ InitRequestState
    /\ EmbedIdle
    /\ GraphIdle
    /\ BuildIdle
    /\ PureIdle

Next ==
    \/ loggingMiddleware
    \/ corsMiddleware
    \/ authMiddleware
    \/ notFound
    \/ handleHealth
    \/ handleMCP
    \/ handleA2A
    \/ handleChatCompletions
    \/ hybridSearchVector
    \/ hybridSearchGraph
    \/ chatNonStreaming
    \/ handleStreamingCompletion
    \/ streamRecvChunk
    \/ streamRecvEnd
    \/ clientDisconnect
    \/ LogRequest
    \/ serveNext

Spec == Init /\ [][Next]_vars

-----------------------------------------------------------------------------
(* Claims about the runtime server *)

ChatPath == "/v1/chat/completions"

ExactBearer == BearerPrefix \o apiKey

\* C1: with a non-empty AGENT_API_KEY, a request that is neither /health nor
\* OPTIONS reaches a route handler (and any retrieval or LLM call) only if its
\* Authorization header is exactly "Bearer " + key, and is otherwise answered
\* 401 with a JSON error object; /health is served without a header; with no key
\* configured nothing is answered 401.
C1_AuthGate ==
    /\ (apiKey # << >> /\ pc # "idle" /\ req.path # "/health" /\ req.method # "OPTIONS")
          => /\ (handlerRan # "none" \/ calls # << >> \/ pc = "mux")
                    => req.auth = ExactBearer
             /\ (pc = "done" /\ req.auth # ExactBearer)
                    => (status = 401 /\ respBody = "json_error")
    /\ (pc = "done" /\ req.path = "/health" /\ req.method # "OPTIONS")
          => (handlerRan = "handleHealth" /\ status = 200)
    /\ (apiKey = << >>) => status # 401

\* a bearer header with a wrong key was rejected
C1_Witness ==
    /\ apiKey # << >> /\ pc = "done" /\ status = 401
    /\ HasPrefix(req.auth, BearerPrefix) /\ req.path = ChatPath /\ req.method = "POST"

CountOf(seq, x) == Cardinality({i \in 1..Len(seq) : seq[i] = x})

ChatRunning == handlerRan = "handleChatCompletions" /\ req.method = "POST" /\ body.ok

ChatFinished == ChatRunning /\ pc \in {"logret", "done"}

\* C2: no retrieval failure fails a chat request: after a vector failure
\* (including the empty query of a request with no user message) the context is
\* empty, after a graph failure it holds the vector hits only; the LLM is
\* called exactly once, after retrieval, and the response is the LLM's answer.
C2_RetrievalNonFatal ==
    /\ ChatRunning =>
          /\ \A i \in 1..Len(calls) :
                calls[i] = "llm" => (i = Len(calls) /\ pc \notin {"vector", "graph"})
          /\ (vecRes.err /\ pc \notin {"vector"}) => retrievedCtx = << >>
          /\ (userQuery = << >> /\ pc \notin {"mux", "vector"}) => vecRes.err
          /\ (graphRes.err /\ ~vecRes.err /\ pc \notin {"vector", "graph"})
                => retrievedCtx = FormatContext(vecRes.items, << >>)
    /\ ChatFinished =>
          /\ CountOf(calls, "llm") = 1
          /\ CountOf(calls, "vector") = 1
          /\ (~body.stream /\ ~llmOutcome.err /\ llmOutcome.answer # << >>)
                => (status = 200 /\ respBody = "json_completion"
                    /\ llmAnswer = llmOutcome.answer)
          /\ (status # 200) => (llmOutcome.err \/ llmOutcome.answer = << >>)

\* a request without a user message: the vector query failed, the LLM answered
C2_Witness ==
    /\ ChatFinished /\ pc = "done" /\ vecRes.err /\ userQuery = << >>
    /\ Len(body.messages) > 0
    /\ status = 200 /\ llmAnswer = <<"A">> /\ calls = <<"vector", "llm">>

\* the non-system messages of a list, in their order: the k-th of them is the
\* message at the k-th smallest non-system position
NonSystemIdx(msgs) == {i \in 1..Len(msgs) : msgs[i].role # "system"}

KthIdx(S, k) == CHOOSE i \in S : Cardinality({j \in S : j <= i}) = k

IsOriginalWithoutSystem(rest, msgs) ==
    /\ Len(rest) = Cardinality(NonSystemIdx(msgs))
    /\ \A k \in 1..Len(rest) : rest[k] = msgs[KthIdx(NonSystemIdx(msgs), k)]

LLMCalled == ChatRunning /\ CountOf(calls, "llm") > 0

PromptMsg == [role |-> "system", content |-> systemPrompt]

ContextMsg == [role |-> "system", content |-> <<ContextHeader>> \o retrievedCtx]

\* C3 as stated: the LLM input is always prompt message, context message, then
\* the request's non-system messages in order.
C3_AsStated ==
    LLMCalled =>
        /\ Len(llmSent) >= 2
        /\ llmSent[1] = PromptMsg
        /\ llmSent[2] = ContextMsg
        /\ IsOriginalWithoutSystem(SubSeq(llmSent, 3, Len(llmSent)), body.messages)

\* C3 (amended): the LLM input is the prompt message if the system prompt is
\* non-empty, then the context message if the retrieval context is non-empty,
\* then the request's messages with every system message removed, in their
\* original relative order; nothing else.
C3_AugmentedMessages ==
    LLMCalled =>
        LET n0 == IF systemPrompt # << >> THEN 1 ELSE 0
            n1 == IF retrievedCtx # << >> THEN 1 ELSE 0
        IN /\ Len(llmSent) >= n0 + n1
           /\ (n0 = 1) => llmSent[1] = PromptMsg
           /\ (n1 = 1) => llmSent[n0 + 1] = ContextMsg
           /\ IsOriginalWithoutSystem(SubSeq(llmSent, n0 + n1 + 1, Len(llmSent)),
                                      body.messages)

\* a request with a system message and a user message, with context and prompt
C3_Witness ==
    /\ LLMCalled /\ systemPrompt # << >> /\ retrievedCtx # << >>
    /\ Len(body.messages) = 2 /\ body.messages[1].role = "system"
    /\ body.messages[2].role = "user" /\ Len(llmSent) = 3

Streaming == ChatRunning /\ body.stream /\ CountOf(calls, "llm") > 0

IsTerminal(e) == e.type \in {"done", "error"}

\* C4: the content deltas are forwarded in upstream order, one data event each
\* with the same id; the stream ends with exactly one terminal event, [DONE]
\* after a normal end, one error event and no [DONE] after an upstream failure;
\* nothing is written after the terminal event.
C4_StreamOrderAndTerminal ==
    Streaming =>
        LET deltas == SelectSeq(out, LAMBDA e : e.type = "delta")
            sent == SelectSeq(upstream, LAMBDA d : d # << >>)
        IN /\ Len(deltas) = Len(sent)
           /\ \A i \in 1..Len(deltas) :
                 deltas[i].content = sent[i] /\ deltas[i].id = deltas[1].id
           /\ \A i \in 1..(Len(out) - 1) : ~IsTerminal(out[i])
           /\ (pc = "recv") => \A i \in 1..Len(out) : ~IsTerminal(out[i])
           /\ (pc \in {"logret", "done"}) =>
                 /\ Len(out) > 0 /\ IsTerminal(out[Len(out)])
                 /\ (upstreamEnd = "EOF") => out[Len(out)] = DoneEvent
                 /\ (upstreamEnd \in {"failed", "none"}) =>
                       (out[Len(out)] = ErrorEvent
                        /\ \A i \in 1..Len(out) : out[i] # DoneEvent)

\* two deltas were forwarded and then the upstream failed
C4_Witness ==
    /\ Streaming /\ pc = "done" /\ upstreamEnd = "failed"
    /\ Len(out) = 3 /\ out[1].content = <<"y">> /\ out[2].content = <<"x">>

CancellationLogged == slog \cap {"streaming LLM error", "stream cancelled"} # {}

\* C5: after a client disconnect at most one further chunk is read, and the
\* cancellation is surfaced as such: it is logged and the stream is not closed
\* with [DONE].
C5_CancellationSurfaced ==
    (Streaming /\ clientGone) =>
        /\ readsAfterGone <= 1
        /\ (upstreamEnd = "canceled") =>
              (CancellationLogged /\ \A i \in 1..Len(out) : out[i] # DoneEvent)

\* C6: every failed request on the chat route (405, 400, 502, 401) carries a
\* JSON body with a single error field.
C6_ErrorsAreJSON ==
    (pc = "done" /\ req.path = ChatPath /\ status \in {400, 401, 405, 502})
        => respBody = "json_error"

-----------------------------------------------------------------------------
(* The embedding function of the vector store and the collection it feeds  *)

\* longest vector the embeddings API returns
MaxVecLen == 3
\* largest declared dimension
MaxDim == 2

Min(a, b) == IF a < b THEN a ELSE b

Components == {1, 2}

DocIds == {"doc_0", "doc_1"}

\* responses of POST /embeddings: a failure (transport, non-200, bad JSON) or
\* data[0].embedding
UpstreamEmbeddings == {[ok |-> FALSE, vec |-> << >>]}
                      \cup [ok : {TRUE}, vec : SeqsUpTo(Components, MaxVecLen)]

\* the function returned by newEmbeddingFuncWithDimensions
EmbeddingFunc(D, up) ==
    IF ~up.ok \/ Len(up.vec) = 0
    THEN [err |-> TRUE, vec |-> << >>]
    ELSE [err |-> FALSE,
          vec |-> IF D > 0 /\ Len(up.vec) > D THEN SubSeq(up.vec, 1, D) ELSE up.vec]

\* Collection.AddDocument for one document: embed its content, store the
\* result under the id (an existing id is replaced)
AddDocument ==
    \E id \in DocIds, up \in UpstreamEmbeddings :
       LET r == EmbeddingFunc(dimensions, up)
       IN /\ lastUp' = up
          /\ lastErr' = r.err
          /\ collection' = IF r.err THEN collection
                           ELSE {d \in collection : d.id # id}
                                \cup {[id |-> id, embedding |-> r.vec]}
          /\ UNCHANGED <<dimensions, serverVars, graphVars, buildVars, pureVars>>

InitEmbed ==
    /\ apiKey = << >>
    /\ systemPrompt = << >>
    /\ reranker = FALSE
    /\ InitRequestState
    /\ dimensions \in 1..MaxDim
    /\ collection = {}
    /\ lastUp = [ok |-> FALSE, vec |-> << >>]
    /\ lastErr = FALSE
    /\ GraphIdle
    /\ BuildIdle
    /\ PureIdle

NextEmbed == AddDocument

SpecEmbed == InitEmbed /\ [][NextEmbed]_vars

\* C7: every stored embedding has length exactly D: a longer upstream vector is
\* truncated to its first D components, a shorter one is rejected with an error
\* and never stored.
C7_StoredLengthIsD ==
    /\ \A d \in collection : Len(d.embedding) = dimensions
    /\ (lastUp.ok /\ Len(lastUp.vec) < dimensions) => lastErr
    /\ (lastUp.ok /\ Len(lastUp.vec) >= dimensions /\ ~lastErr) =>
          \E d \in collection : d.embedding = SubSeq(lastUp.vec, 1, dimensions)

-----------------------------------------------------------------------------
(* Triple extraction output and the graph store                            *)

\* most entries in one extraction response
MaxEntries == 2
\* most quads held by the store
MaxQuads == 2

IsSpace(ch) == ch \in {" ", "\t", "\n", "\r"}

RECURSIVE TrimLeft(_)
TrimLeft(str) ==
    IF Len(str) > 0 /\ IsSpace(Head(str)) THEN TrimLeft(Tail(str)) ELSE str

RECURSIVE TrimRight(_)
TrimRight(str) ==
    IF Len(str) > 0 /\ IsSpace(str[Len(str)])
    THEN TrimRight(SubSeq(str, 1, Len(str) - 1))
    ELSE str

\* strings.TrimSpace
TrimSpace(str) == TrimRight(TrimLeft(str))

normalise(str) == TrimSpace(str)

\* the JSON objects an extraction response can carry
Entries == [subject   : {<< >>, <<" ">>, <<"a">>, <<" ", "a">>},
            predicate : {<<"p">>, <<" ">>},
            object    : {<<"o">>, << >>}]

\* LLM responses: no JSON array in the text, an array that does not
\* unmarshal, or an array of entries
RawResponses == {[kind |-> "none", entries |-> << >>],
                 [kind |-> "bad", entries |-> << >>]}
                \cup [kind : {"array"}, entries : SeqsUpTo(Entries, MaxEntries)]

NonEmptyFields(t) == t.subject # << >> /\ t.predicate # << >> /\ t.object # << >>

parseTriples(raw) ==
    IF raw.kind = "none" THEN [err |-> FALSE, triples |-> << >>]
    ELSE IF raw.kind = "bad" THEN [err |-> TRUE, triples |-> << >>]
    ELSE [err |-> FALSE, triples |-> SelectSeq(raw.entries, NonEmptyFields)]

\* the quads AddTriples hands to AddQuadSet
QuadsOf(ts) ==
    LET kept == SelectSeq(ts, NonEmptyFields)
    IN [i \in 1..Len(kept) |->
          [subject   |-> normalise(kept[i].subject),
           predicate |-> normalise(kept[i].predicate),
           object    |-> normalise(kept[i].object)]]

RECURSIVE AppendNew(_, _)
\* the store keeps one copy of a quad
AppendNew(store, qs) ==
    IF qs = << >> THEN store
    ELSE AppendNew(IF \E i \in 1..Len(store) : store[i] = Head(qs)
                   THEN store ELSE Append(store, Head(qs)),
                   Tail(qs))

\* Client.ExtractTriples: the completion fails, or its text is parsed
ExtractTriples ==
    /\ gpc = "idle"
    /\ \/ /\ graphErr' = TRUE
          /\ UNCHANGED <<gpc, triples>>
       \/ \E raw \in RawResponses :
             LET r == parseTriples(raw)
             IN /\ graphErr' = r.err
                /\ triples' = r.triples
                /\ gpc' = IF r.err THEN "idle" ELSE "parsed"
    /\ UNCHANGED <<quads, searchVars, serverVars, embedVars, buildVars, pureVars>>

\* DB.AddTriples on the extracted triples
AddTriples ==
    /\ gpc = "parsed"
    /\ gpc' = "idle"
    /\ triples' = << >>
    /\ IF Len(triples) = 0
       THEN /\ graphErr' = FALSE
            /\ UNCHANGED quads
       ELSE \/ /\ Len(AppendNew(quads, QuadsOf(triples))) <= MaxQuads
               /\ quads' = AppendNew(quads, QuadsOf(triples))
               /\ graphErr' = FALSE
            \/ /\ graphErr' = TRUE
               /\ UNCHANGED quads
    /\ UNCHANGED <<searchVars, serverVars, embedVars, buildVars, pureVars>>

InitGraph ==
    /\ apiKey = << >>
    /\ systemPrompt = << >>
    /\ reranker = FALSE
    /\ InitRequestState
    /\ EmbedIdle
    /\ GraphIdle
    /\ BuildIdle
    /\ PureIdle

NextGraph ==
    \/ ExtractTriples
    \/ AddTriples

SpecGraph == InitGraph /\ [][NextGraph]_vars

Trimmed(str) == TrimSpace(str) = str

\* C8: after parseTriples and AddTriples every triple handed on and every quad
\* in the store has a non-empty subject, predicate and object, each stored
\* without surrounding whitespace; an entry whose field is empty or only
\* whitespace is never stored.
C8_StoredTriplesNonEmpty ==
    /\ \A i \in 1..Len(triples) : NonEmptyFields(triples[i])
    /\ \A i \in 1..Len(quads) :
          /\ NonEmptyFields(quads[i])
          /\ Trimmed(quads[i].subject)
          /\ Trimmed(quads[i].predicate)
          /\ Trimmed(quads[i].object)

-----------------------------------------------------------------------------
(* kash build: steps 3 to 5 of runBuild                                    *)

\* most chunks the documents split into
MaxBuildChunks == 21

\* addChunksSequential
batchSize == 20
maxRetries == 5

\* runBuild, step 4
buildBatchSize == 10
buildMaxRetries == 2

\* 1 << attempt with the bits in the wrong place: attempt + 1
Pow2_linear(k) == k + 1

RECURSIVE Pow2(_)
\* 1 << attempt
Pow2(k) == IF k = 0 THEN 1 ELSE 2 * Pow2(k - 1)

\* end := i + batchSize, clipped to len(chunks)
BatchEnd_short(i, n) == Min(i + batchSize - 1, n)

BatchEnd(i, n) == Min(i + batchSize, n)

\* chunks[i:end] of the embedding loop, as chunk numbers 1..n
BatchChunks(i, n) == (i + 1)..BatchEnd(i, n)

\* the extraction loop runs another attempt after a failed one
RetryExtraction_extra(att) == att < buildMaxRetries + 1

RetryExtraction(att) == att < buildMaxRetries

EmbedError == "add chunks to vector store"

Warning(kind, g, att) == [kind |-> kind, group |-> g, attempt |-> att]

\* a failed AddDocuments may have stored the documents before the failing one
PartialAdds(docs) == {{c \in docs : c < k} : k \in docs}

\* runBuild fails: the error is returned, nothing else runs
failBuild(e) ==
    /\ buildErr' = e
    /\ bpc' = "done"

\* runBuild up to the AddChunks call: the documents are split into chunks
runBuild ==
    /\ bpc = "idle"
    /\ \E n \in 0..MaxBuildChunks, par \in BOOLEAN :
          /\ nChunks' = n
          /\ parallel' = par
          /\ bpc' = IF n = 0 THEN "graph" ELSE "embed"
    /\ UNCHANGED <<batchStart, attempt, embedded, embedCalls, waits, ctxDone,
                   buildErr, group, xAttempt, extractCalls, groupsAdded,
                   warnings, manifestWritten>>
    /\ UNCHANGED <<serverVars, embedVars, graphVars, pureVars>>

addChunksParallel ==
    /\ bpc = "embed"
    /\ parallel
    /\ embedCalls' = Append(embedCalls, <<0, 0>>)
    /\ \/ /\ embedded' = 1..nChunks
          /\ bpc' = "graph"
          /\ UNCHANGED buildErr
       \/ /\ embedded' \in PartialAdds(1..nChunks)
          /\ failBuild(EmbedError)
    /\ UNCHANGED <<parallel, nChunks, batchStart, attempt, waits, ctxDone,
                   group, xAttempt, extractCalls, groupsAdded, warnings,
                   manifestWritten>>
    /\ UNCHANGED <<serverVars, embedVars, graphVars, pureVars>>

\* one AddDocuments call of the attempt loop of addChunksSequential
addChunksSequential ==
    /\ bpc = "embed"
    /\ ~parallel
    /\ embedCalls' = Append(embedCalls, <<batchStart, attempt>>)
    /\ LET docs == BatchChunks(batchStart, nChunks)
       IN \/ \* err == nil: break, next batch
             /\ embedded' = embedded \cup docs
             /\ batchStart' = batchStart + batchSize
             /\ attempt' = 0
             /\ bpc' = IF batchStart + batchSize < nChunks THEN "embed" ELSE "graph"
             /\ UNCHANGED buildErr
          \/ \* rate limit error: back off
             /\ embedded' \in {embedded \cup a : a \in PartialAdds(docs)}
             /\ bpc' = "backoff"
             /\ UNCHANGED <<batchStart, attempt, buildErr>>
          \/ \* any other error: break, return it
             /\ embedded' \in {embedded \cup a : a \in PartialAdds(docs)}
             /\ failBuild(EmbedError)
             /\ UNCHANGED <<batchStart, attempt>>
    /\ UNCHANGED <<parallel, nChunks, waits, ctxDone, group, xAttempt,
                   extractCalls, groupsAdded, warnings, manifestWritten>>
    /\ UNCHANGED <<serverVars, embedVars, graphVars, pureVars>>

\* the select of the backoff wait
backoffWait ==
    /\ bpc = "backoff"
    /\ \/ \* <-time.After(backoff): continue
          /\ waits' = Append(waits, Pow2(attempt))
          /\ attempt' = attempt + 1
          /\ IF attempt + 1 < maxRetries
             THEN bpc' = "embed" /\ UNCHANGED buildErr
             ELSE failBuild(EmbedError)
       \/ \* <-ctx.Done(): return ctx.Err()
          /\ ctxDone
          /\ failBuild(EmbedError)
          /\ UNCHANGED <<waits, attempt>>
    /\ UNCHANGED <<parallel, nChunks, batchStart, embedded, embedCalls, ctxDone,
                   group, xAttempt, extractCalls, groupsAdded, warnings,
                   manifestWritten>>
    /\ UNCHANGED <<serverVars, embedVars, graphVars, pureVars>>

\* graph.NewDBFromPath and llm.NewClient
NewDBFromPath ==
    /\ bpc = "graph"
    /\ \/ /\ bpc' = IF nChunks > 0 THEN "extract" ELSE "manifest"
          /\ UNCHANGED buildErr
       \/ failBuild("create graph store")
    /\ UNCHANGED <<parallel, nChunks, batchStart, attempt, embedded, embedCalls,
                   waits, ctxDone, group, xAttempt, extractCalls, groupsAdded,
                   warnings, manifestWritten>>
    /\ UNCHANGED <<serverVars, embedVars, graphVars, pureVars>>

\* the for statement of step 4 moves to the next group of chunks
NextGroup ==
    /\ group' = group + buildBatchSize
    /\ xAttempt' = 0
    /\ bpc' = IF group + buildBatchSize < nChunks THEN "extract" ELSE "manifest"

\* one ExtractTriples call of the retry loop of step 4
extractGroup ==
    /\ bpc = "extract"
    /\ \/ \* extractErr == nil: break
          /\ extractCalls' = Append(extractCalls, <<group, xAttempt, TRUE>>)
          /\ bpc' = "add"
          /\ UNCHANGED <<group, xAttempt, warnings>>
       \/ /\ extractCalls' = Append(extractCalls, <<group, xAttempt, FALSE>>)
          /\ IF RetryExtraction(xAttempt)
             THEN /\ warnings' = warnings \cup {Warning("retrying", group, xAttempt)}
                  /\ xAttempt' = xAttempt + 1
                  /\ UNCHANGED <<bpc, group>>
             ELSE /\ warnings' = warnings \cup {Warning("extraction failed", group, 0)}
                  /\ NextGroup
    /\ UNCHANGED <<parallel, nChunks, batchStart, attempt, embedded, embedCalls,
                   waits, ctxDone, buildErr, groupsAdded, manifestWritten>>
    /\ UNCHANGED <<serverVars, embedVars, graphVars, pureVars>>

\* gdb.AddTriples for the group's triples
addGroupTriples ==
    /\ bpc = "add"
    /\ \/ /\ groupsAdded' = groupsAdded \cup {group}
          /\ UNCHANGED warnings
       \/ /\ warnings' = warnings \cup {Warning("add failed", group, 0)}
          /\ UNCHANGED groupsAdded
    /\ NextGroup
    /\ UNCHANGED <<parallel, nChunks, batchStart, attempt, embedded, embedCalls,
                   waits, ctxDone, buildErr, extractCalls, manifestWritten>>
    /\ UNCHANGED <<serverVars, embedVars, graphVars, pureVars>>

\* os.ReadFile("agent.yaml") and yaml.Unmarshal
readAgentYAML ==
    /\ bpc = "manifest"
    /\ \/ /\ bpc' = "describe"
          /\ UNCHANGED buildErr
       \/ failBuild("read agent.yaml")
       \/ failBuild("parse agent.yaml")
    /\ UNCHANGED <<parallel, nChunks, batchStart, attempt, embedded, embedCalls,
                   waits, ctxDone, group, xAttempt, extractCalls, groupsAdded,
                   warnings, manifestWritten>>
    /\ UNCHANGED <<serverVars, embedVars, graphVars, pureVars>>

GenerateMCPDescription ==
    /\ bpc = "describe"
    /\ bpc' = "update"
    /\ \/ UNCHANGED warnings
       \/ warnings' = warnings \cup {Warning("description failed", 0, 0)}
    /\ UNCHANGED <<parallel, nChunks, batchStart, attempt, embedded, embedCalls,
                   waits, ctxDone, buildErr, group, xAttempt, extractCalls,
                   groupsAdded, manifestWritten>>
    /\ UNCHANGED <<serverVars, embedVars, graphVars, pureVars>>

updateAgentYAMLMCPDescription ==
    /\ bpc = "update"
    /\ bpc' = "done"
    /\ \/ /\ manifestWritten' = TRUE
          /\ UNCHANGED warnings
       \/ /\ warnings' = warnings \cup {Warning("update failed", 0, 0)}
          /\ UNCHANGED manifestWritten
    /\ UNCHANGED <<parallel, nChunks, batchStart, attempt, embedded, embedCalls,
                   waits, ctxDone, buildErr, group, xAttempt, extractCalls,
                   groupsAdded>>
    /\ UNCHANGED <<serverVars, embedVars, graphVars, pureVars>>

InitBuild ==
    /\ apiKey = << >>
    /\ systemPrompt = << >>
    /\ reranker = FALSE
    /\ InitRequestState
    /\ EmbedIdle
    /\ GraphIdle
    /\ BuildIdle
    /\ PureIdle

NextBuild ==
    \/ runBuild
    \/ addChunksParallel
    \/ addChunksSequential
    \/ backoffWait
    \/ NewDBFromPath
    \/ extractGroup
    \/ addGroupTriples
    \/ readAgentYAML
    \/ GenerateMCPDescription
    \/ updateAgentYAMLMCPDescription

SpecBuild == InitBuild /\ [][NextBuild]_vars

-----------------------------------------------------------------------------
(* Properties of the build pipeline                                        *)

\* AddChunks returned an error and runBuild returned it
EmbeddingFailed == bpc = "done" /\ buildErr = EmbedError

\* AddChunks returned nil
EmbeddingSucceeded ==
    \/ bpc \in {"graph", "extract", "add", "manifest", "describe", "update"}
    \/ bpc = "done" /\ buildErr # EmbedError

\* C9: when embedding a batch fails the build stops with an error: no later
\* batch is sent, no triple extraction call is made and the manifest is not
\* modified; when the embedding stage succeeds every chunk of the chunk list
\* was added to the vector index.
C9_EmbeddingFailureStopsBuild ==
    /\ EmbeddingFailed =>
          /\ extractCalls = << >>
          /\ groupsAdded = {}
          /\ ~manifestWritten
          /\ embedCalls # << >>
          /\ embedCalls[Len(embedCalls)][1] = batchStart
          /\ \A i \in 1..Len(embedCalls) : embedCalls[i][1] <= batchStart
    /\ EmbeddingSucceeded => embedded = 1..nChunks

\* the second batch is rate limited five times, after the first was stored
C9_Witness ==
    /\ EmbeddingFailed
    /\ nChunks > 20
    /\ batchStart = 20
    /\ waits = <<1, 2, 4, 8, 16>>
    /\ \A c \in 1..20 : c \in embedded
    /\ extractCalls = << >>
    /\ ~manifestWritten

CallsFor(g) == {i \in 1..Len(extractCalls) : extractCalls[i][1] = g}

\* the loop of step 4 has ended and runBuild went on to step 5
ExtractionOver ==
    \/ bpc \in {"manifest", "describe", "update"}
    \/ bpc = "done" /\ buildErr \notin {EmbedError, "create graph store"}

\* C10: triple extraction works on groups of 10 consecutive chunks, makes at
\* most three calls per group and stops at the first success; a group whose
\* calls all fail, or whose insertion fails, is skipped with a warning and the
\* following groups are still processed; no extraction failure fails the build.
C10_ExtractionRetriesAndSkips ==
    /\ \A i \in 1..Len(extractCalls) :
          /\ extractCalls[i][1] % 10 = 0
          /\ extractCalls[i][1] < nChunks
    /\ \A g \in 0..nChunks : Cardinality(CallsFor(g)) <= 3
    /\ \A i, j \in 1..Len(extractCalls) :
          (i < j /\ extractCalls[i][1] = extractCalls[j][1]) => ~extractCalls[i][3]
    /\ ExtractionOver =>
          \A g \in 0..(nChunks - 1) :
             g % 10 = 0 =>
                /\ CallsFor(g) # {}
                /\ g \in groupsAdded =>
                      \E i \in CallsFor(g) : extractCalls[i][3]
                /\ g \notin groupsAdded =>
                      \/ Warning("extraction failed", g, 0) \in warnings
                      \/ Warning("add failed", g, 0) \in warnings
    /\ (bpc = "done" /\ extractCalls # << >> /\ buildErr # "") =>
          buildErr \in {"read agent.yaml", "parse agent.yaml"}

\* a build that completes although one group failed three times and another
\* group's insertion failed, with a later group stored
C10_Witness ==
    /\ bpc = "done"
    /\ buildErr = ""
    /\ \E g \in 0..nChunks :
          /\ Cardinality(CallsFor(g)) = 3
          /\ \A i \in CallsFor(g) : ~extractCalls[i][3]
          /\ Warning("extraction failed", g, 0) \in warnings
          /\ \E h \in groupsAdded : h > g
    /\ \E g \in 0..nChunks : Warning("add failed", g, 0) \in warnings

-----------------------------------------------------------------------------
(* DB.Search: keyword search over the quads of the store                   *)

\* most quads in the store that is searched
MaxStore == 4

\* strings.ToLower on the letters used here
ToLowerChar(ch) == IF ch = "C" THEN "c" ELSE IF ch = "D" THEN "d" ELSE ch

ToLower(str) == [i \in 1..Len(str) |-> ToLowerChar(str[i])]

RECURSIVE Concat(_)
\* concatenation of a sequence of strings
Concat(strs) == IF strs = << >> THEN << >> ELSE Head(strs) \o Concat(Tail(strs))

RECURSIVE FieldsFrom(_, _, _)
\* strings.Fields: the maximal runs of non-space characters, in order
FieldsFrom(str, cur, acc) ==
    IF str = << >>
    THEN IF cur = << >> THEN acc ELSE Append(acc, cur)
    ELSE IF IsSpace(Head(str))
         THEN FieldsFrom(Tail(str), << >>, IF cur = << >> THEN acc ELSE Append(acc, cur))
         ELSE FieldsFrom(Tail(str), Append(cur, Head(str)), acc)

Fields(str) == FieldsFrom(str, << >>, << >>)

\* strings.Contains
Contains(str, sub) ==
    \E i \in 1..(Len(str) + 1) :
       /\ i + Len(sub) - 1 <= Len(str)
       /\ SubSeq(str, i, i + Len(sub) - 1) = sub

RECURSIVE scoreTerms(_, _)
scoreTerms(terms, combined) ==
    IF terms = << >> THEN 0
    ELSE (IF Len(Head(terms)) >= 3 /\ Contains(combined, Head(terms)) THEN 1 ELSE 0)
         + scoreTerms(Tail(terms), combined)

scoreMatch(terms, subj, pred, obj) ==
    scoreTerms(terms, ToLower(subj \o <<" ">> \o pred \o <<" ">> \o obj))

\* quadValueStr on a string value
quadValueStr(v) == TrimSpace(v)

SearchResult(q, score) ==
    [subject |-> q.subject, predicate |-> q.predicate, object |-> q.object,
     score |-> score]

\* the seen-key of a quad: subj + "|" + pred + "|" + obj
QuadKey(q) == q.subject \o <<"|">> \o q.predicate \o <<"|">> \o q.object

RECURSIVE ScanQuads(_, _, _, _, _)
\* the iteration over QuadsAllIterator: collects the quads with a positive
\* score and stops once topK*3 of them are collected
ScanQuads(store, terms, topK, results, seen) ==
    IF store = << >> THEN results
    ELSE LET q == [subject   |-> quadValueStr(Head(store).subject),
                   predicate |-> quadValueStr(Head(store).predicate),
                   object    |-> quadValueStr(Head(store).object)]
             score == scoreMatch(terms, q.subject, q.predicate, q.object)
             hit == QuadKey(q) \notin seen /\ score > 0
             res == IF hit THEN Append(results, SearchResult(q, score)) ELSE results
         IN IF QuadKey(q) \notin seen /\ Len(res) >= topK * 3
            THEN res
            ELSE ScanQuads(Tail(store), terms, topK, res,
                           IF hit THEN seen \cup {QuadKey(q)} ELSE seen)

RECURSIVE InsertByScore(_, _)
\* one pass of the inner sorting loop: x moves left while its score is
\* greater than the score of the element before it
InsertByScore(sorted, x) ==
    IF sorted # << >> /\ x.score > sorted[Len(sorted)].score
    THEN Append(InsertByScore(SubSeq(sorted, 1, Len(sorted) - 1), x),
                sorted[Len(sorted)])
    ELSE Append(sorted, x)

RECURSIVE SortByScore(_, _)
SortByScore(sorted, rest) ==
    IF rest = << >> THEN sorted
    ELSE SortByScore(InsertByScore(sorted, Head(rest)), Tail(rest))

\* the topK after the default is applied
EffectiveTopK(topK) == IF topK <= 0 THEN 10 ELSE topK

SearchOutcome(store, query, topK) ==
    IF query = << >> THEN [err |-> TRUE, results |-> << >>]
    ELSE LET k == EffectiveTopK(topK)
             found == ScanQuads(store, Fields(ToLower(query)), k, << >>, {})
             sorted == SortByScore(<< >>, found)
         IN [err |-> FALSE,
             results |-> IF Len(sorted) > k THEN SubSeq(sorted, 1, k) ELSE sorted]

Cat == <<"c", "a", "t">>
Dog == <<"d", "o", "g">>
Pet == <<"p", "e", "t">>

\* quads a build can have stored
StoredQuads == [subject : {Cat, Dog}, predicate : {<<"i", "s">>}, object : {Cat, Dog, Pet}]

Stores == {st \in SeqsUpTo(StoredQuads, MaxStore) :
             \A i, j \in 1..Len(st) : i # j => st[i] # st[j]}

Queries == {<< >>, Cat, Cat \o <<" ">> \o Dog, <<"C", "a", "t", " ", "a", "t">>,
            Cat \o <<" ">> \o Cat, <<"a", "t">>}

TopKs == {0, 1, 2}

Search ==
    \E query \in Queries, topK \in TopKs :
       LET r == SearchOutcome(quads, query, topK)
       IN /\ searchQuery' = query
          /\ searchTopK' = topK
          /\ searchResults' = r.results
          /\ searchErr' = r.err
          /\ UNCHANGED <<gpc, triples, quads, graphErr, serverVars, embedVars, buildVars, pureVars>>

InitSearch ==
    /\ apiKey = << >>
    /\ systemPrompt = << >>
    /\ reranker = FALSE
    /\ InitRequestState
    /\ EmbedIdle
    /\ BuildIdle
    /\ PureIdle
    /\ gpc = "idle"
    /\ triples = << >>
    /\ quads \in Stores
    /\ graphErr = FALSE
    /\ searchQuery = << >>
    /\ searchTopK = 0
    /\ searchResults = << >>
    /\ searchErr = FALSE

NextSearch == Search

SpecSearch == InitSearch /\ [][NextSearch]_vars

\* the score of the i-th quad of the store for the last query
ScoreOf(i) ==
    scoreMatch(Fields(ToLower(searchQuery)),
               quads[i].subject, quads[i].predicate, quads[i].object)

Positive == {i \in 1..Len(quads) : ScoreOf(i) > 0}

\* the place in the store of a result
StoreIndex(r) ==
    CHOOSE i \in 1..Len(quads) :
       /\ quads[i].subject = r.subject
       /\ quads[i].predicate = r.predicate
       /\ quads[i].object = r.object

SearchDone == searchQuery # << >> /\ ~searchErr

\* C11: Search(query, k) returns, out of all quads with a positive score, the
\* k with the highest scores (all of them if there are fewer), by descending
\* score with insertion order as tie-break; no quad left out has a higher
\* score than a quad in the result.
C11_TopKOfAllPositive ==
    SearchDone =>
       LET k == EffectiveTopK(searchTopK)
           In == {StoreIndex(searchResults[n]) : n \in 1..Len(searchResults)}
       IN /\ Len(searchResults) = Min(k, Cardinality(Positive))
          /\ In \subseteq Positive
          /\ \A n \in 1..Len(searchResults) :
                searchResults[n].score = ScoreOf(StoreIndex(searchResults[n]))
          /\ \A n \in 1..(Len(searchResults) - 1) :
                \/ searchResults[n].score > searchResults[n + 1].score
                \/ /\ searchResults[n].score = searchResults[n + 1].score
                   /\ StoreIndex(searchResults[n]) < StoreIndex(searchResults[n + 1])
          /\ \A i \in Positive \ In, j \in In : ScoreOf(i) <= ScoreOf(j)

-----------------------------------------------------------------------------
(* The runtime server with a reranker configured                           *)

InitRerank ==
    /\ apiKey = TheKey
    /\ systemPrompt = <<"SP">>
    /\ reranker = TRUE
    /\ InitRequestState
    /\ EmbedIdle
    /\ GraphIdle
    /\ BuildIdle
    /\ PureIdle

SpecRerank == InitRerank /\ [][Next]_vars

\* the vector hits in the order they appear in the retrieval context
HitsInContext == SelectSeq(retrievedCtx, LAMBDA x : x \in {"h1", "h2"})

\* hybridSearch has returned a context built from at least two vector hits
TwoHitsFormatted ==
    /\ ~vecRes.err
    /\ Len(vecRes.items) >= 2
    /\ retrievedCtx # << >>

\* C12: with a reranker configured and at least two vector hits, hybrid search
\* calls the reranker and the hits appear in the context by descending
\* relevance score; with no reranker they keep the order of the vector index
\* (non-increasing similarity).
C12_RerankedWhenConfigured ==
    TwoHitsFormatted =>
       IF reranker
       THEN /\ \E i \in 1..Len(calls) : calls[i] = "rerank"
            /\ \A i, j \in 1..Len(HitsInContext) :
                  i < j => RelevanceScore(HitsInContext[i]) >= RelevanceScore(HitsInContext[j])
       ELSE /\ HitsInContext = vecRes.items
            /\ \A i, j \in 1..Len(HitsInContext) :
                  i < j => Similarity(HitsInContext[i]) >= Similarity(HitsInContext[j])

-----------------------------------------------------------------------------
(* Order of the two searches of one retrieval                              *)

\* vectorStore.Query of the current request has returned
VectorQueryReturned == \E i \in 1..Len(calls) : calls[i] = "vector"

\* graphDB.Search of the current request has been called
GraphSearchStarted == \E i \in 1..Len(calls) : calls[i] = "graph"

\* C13: within one retrieval the vector query and the graph search run
\* concurrently: the graph search is started without waiting for the vector
\* query to finish, so whenever the vector query has returned the graph search
\* has already been started.
C13_SearchesRunConcurrently == VectorQueryReturned => GraphSearchStarted

-----------------------------------------------------------------------------
(* The chunker: texts are sequences of runes                               *)

\* longest input text, in runes
MaxTextLen == 4
\* largest chunk size and overlap given to NewChunker
MaxChunkSize == 3

\* "E2" stands for a rune that UTF-8 encodes in two bytes, "XX" for a byte that
\* is not valid UTF-8, "FFFD" for the replacement rune U+FFFD (three bytes)
RuneBytes(r) == IF r = "E2" THEN 2 ELSE IF r = "FFFD" THEN 3 ELSE 1

\* utf8.ValidString
ValidString(text) == \A i \in 1..Len(text) : text[i] # "XX"

\* []rune(text): an invalid byte becomes U+FFFD
ToRunes(text) == [i \in 1..Len(text) |-> IF text[i] = "XX" THEN "FFFD" ELSE text[i]]

RECURSIVE ByteLen(_)
\* len(s) of Go: the number of bytes
ByteLen(str) == IF str = << >> THEN 0 ELSE RuneBytes(Head(str)) + ByteLen(Tail(str))

RECURSIVE ReplaceCRLF(_)
\* strings.ReplaceAll(text, "\r\n", "\n")
ReplaceCRLF(str) ==
    IF str = << >> THEN << >>
    ELSE IF Len(str) >= 2 /\ str[1] = "\r" /\ str[2] = "\n"
         THEN <<"\n">> \o ReplaceCRLF(SubSeq(str, 3, Len(str)))
         ELSE <<Head(str)>> \o ReplaceCRLF(Tail(str))

RECURSIVE SplitParagraphs(_, _)
\* strings.Split(text, "\n\n"); cur is the piece being read
SplitParagraphs(str, cur) ==
    IF str = << >> THEN <<cur>>
    ELSE IF Len(str) >= 2 /\ str[1] = "\n" /\ str[2] = "\n"
         THEN <<cur>> \o SplitParagraphs(SubSeq(str, 3, Len(str)), << >>)
         ELSE SplitParagraphs(Tail(str), Append(cur, Head(str)))

RECURSIVE splitSentencesFrom(_, _, _)
splitSentencesFrom(runes, current, sentences) ==
    IF runes = << >>
    THEN IF current # << >> THEN Append(sentences, current) ELSE sentences
    ELSE LET cur == Append(current, Head(runes))
             rest == Tail(runes)
             boundary == /\ Head(runes) \in {".", "!", "?"}
                         /\ (rest = << >> \/ Head(rest) \in {" ", "\n", "\t"})
         IN IF boundary
            THEN splitSentencesFrom(rest, << >>, Append(sentences, cur))
            ELSE splitSentencesFrom(rest, cur, sentences)

splitSentences(text) == splitSentencesFrom(text, << >>, << >>)

RECURSIVE itoaDigits(_)
itoaDigits(i) ==
    IF i = 0 THEN << >>
    ELSE Append(itoaDigits(i \div 10),
                <<"0", "1", "2", "3", "4", "5", "6", "7", "8", "9">>[(i % 10) + 1])

itoa(i) == IF i = 0 THEN <<"0">> ELSE itoaDigits(i)

\* the four strings.ReplaceAll calls of buildChunkID
Sanitize(source) ==
    [i \in 1..Len(source) |->
        IF source[i] \in {"/", "\\", ".", " "} THEN "_" ELSE source[i]]

buildChunkID(source, idx) ==
    IF source = << >> THEN <<"c", "h", "u", "n", "k", "_">> \o itoa(idx)
    ELSE Sanitize(source) \o <<"_">> \o itoa(idx)

Chunk(source, idx, content) ==
    [ID |-> buildChunkID(source, idx), Content |-> content, Source |-> source,
     Index |-> idx]

\* NewChunker keeping the overlap it was given
NewChunker_keepOverlap(opts) == [ChunkSize |-> opts.ChunkSize, Overlap |-> opts.Overlap]

\* NewChunker: the options the chunker keeps
NewChunker(opts) ==
    LET ov == IF opts.Overlap < 0 THEN 0 ELSE opts.Overlap
    IN [ChunkSize |-> opts.ChunkSize,
        Overlap |-> IF ov >= opts.ChunkSize THEN opts.ChunkSize \div 4 ELSE ov]

RECURSIVE ChunkTextLoop(_, _, _, _, _, _)
\* the for loop of ChunkText over start
ChunkTextLoop(opts, runes, source, start, idx, chunks) ==
    IF start >= Len(runes) THEN chunks
    ELSE LET step == IF opts.ChunkSize - opts.Overlap <= 0
                     THEN opts.ChunkSize ELSE opts.ChunkSize - opts.Overlap
             end == Min(start + opts.ChunkSize, Len(runes))
             content == TrimSpace(SubSeq(runes, start + 1, end))
         IN IF content = << >>
            THEN ChunkTextLoop(opts, runes, source, start + step, idx + 1, chunks)
            ELSE IF end = Len(runes)
                 THEN Append(chunks, Chunk(source, idx, content))
                 ELSE ChunkTextLoop(opts, runes, source, start + step, idx + 1,
                                    Append(chunks, Chunk(source, idx, content)))

ChunkText(opts, text, source) ==
    IF text = << >> THEN << >>
    ELSE ChunkTextLoop(opts, ToRunes(ReplaceCRLF(text)), source, 0, 0, << >>)

\* the closures of SplitBySentence work on builder, chunks and idx
flush(st, source) ==
    LET content == TrimSpace(st.builder)
    IN IF content # << >>
       THEN [builder |-> << >>,
             chunks |-> Append(st.chunks, Chunk(source, st.idx, content)),
             idx |-> st.idx + 1]
       ELSE [st EXCEPT !.builder = << >>]

addFragment(opts, st, source, fragment) ==
    LET frag == TrimSpace(fragment)
        st1 == IF ByteLen(st.builder) + ByteLen(frag) + 2 > opts.ChunkSize
                  /\ ByteLen(st.builder) > 0
               THEN flush(st, source) ELSE st
    IN IF frag = << >> THEN st
       ELSE [st1 EXCEPT !.builder = (IF ByteLen(st1.builder) > 0
                                     THEN st1.builder \o <<"\n", "\n">>
                                     ELSE st1.builder) \o frag]

RECURSIVE appendSubChunks(_, _, _)
\* sub-chunks of ChunkText are renumbered
appendSubChunks(st, source, subChunks) ==
    IF subChunks = << >> THEN st
    ELSE appendSubChunks([st EXCEPT !.chunks = Append(st.chunks,
                                        Chunk(source, st.idx, Head(subChunks).Content)),
                                    !.idx = st.idx + 1],
                         source, Tail(subChunks))

RECURSIVE addSentences(_, _, _, _)
\* the loop over the sentences of an oversized paragraph
addSentences(opts, st, source, sentences) ==
    IF sentences = << >> THEN st
    ELSE LET sent == TrimSpace(Head(sentences))
             next == IF sent = << >> THEN st
                     ELSE IF ByteLen(sent) <= opts.ChunkSize
                          THEN addFragment(opts, st, source, sent)
                          ELSE appendSubChunks(flush(st, source), source,
                                               ChunkText(opts, sent, source))
         IN addSentences(opts, next, source, Tail(sentences))

RECURSIVE addParagraphs(_, _, _, _)
\* the loop over the paragraphs
addParagraphs(opts, st, source, paragraphs) ==
    IF paragraphs = << >> THEN st
    ELSE LET para == TrimSpace(Head(paragraphs))
             next == IF para = << >> THEN st
                     ELSE IF ByteLen(para) <= opts.ChunkSize
                          THEN addFragment(opts, st, source, para)
                          ELSE addSentences(opts, flush(st, source), source,
                                            splitSentences(para))
         IN addParagraphs(opts, next, source, Tail(paragraphs))

SplitBySentence(opts, text, source) ==
    flush(addParagraphs(opts, [builder |-> << >>, chunks |-> << >>, idx |-> 0], source,
                        SplitParagraphs(ReplaceCRLF(text), << >>)),
          source).chunks


Runes == {"a", "E2", " ", ".", "\n"}

Texts == SeqsUpTo(Runes, MaxTextLen)

\* options NewChunker accepts, as it keeps them
ChunkerOptions ==
    {NewChunker([ChunkSize |-> cs, Overlap |-> ov]) :
        cs \in 1..MaxChunkSize, ov \in 0..MaxChunkSize}

Document(name, content) == [Name |-> name, Content |-> content]

RECURSIVE chunkAll(_, _)
\* the loop of step 2 over the documents
chunkAll(opts, ds) ==
    IF ds = << >> THEN << >>
    ELSE SplitBySentence(opts, Head(ds).Content, Head(ds).Name) \o chunkAll(opts, Tail(ds))

\* runBuild, step 2: every document is split and the chunks are collected
chunkDocuments ==
    /\ ~chunked
    /\ allChunks' = chunkAll(copts, documents)
    /\ chunked' = TRUE
    /\ UNCHANGED <<copts, documents, indexIds>>
    /\ UNCHANGED <<serverVars, embedVars, graphVars, buildVars, manifestVars, lateVars, finalVars>>

\* runBuild, step 3 when AddChunks succeeds on an empty index: the collection
\* keeps one document per id
indexChunks ==
    /\ chunked
    /\ indexIds = {}
    /\ indexIds' = {allChunks[i].ID : i \in 1..Len(allChunks)}
    /\ UNCHANGED <<copts, documents, allChunks, chunked>>
    /\ UNCHANGED <<serverVars, embedVars, graphVars, buildVars, manifestVars, lateVars, finalVars>>

NextChunk ==
    \/ chunkDocuments
    \/ indexChunks

\* one document with any text
InitChunk ==
    /\ apiKey = << >>
    /\ systemPrompt = << >>
    /\ reranker = FALSE
    /\ InitRequestState
    /\ EmbedIdle
    /\ GraphIdle
    /\ BuildIdle
    /\ copts \in ChunkerOptions
    /\ \E text \in Texts : documents = <<Document(<<"a", ".", "m", "d">>, text)>>
    /\ allChunks = << >>
    /\ chunked = FALSE
    /\ indexIds = {}
    /\ ManifestIdle
    /\ LateIdle
    /\ FinalIdle

SpecChunk == InitChunk /\ [][NextChunk]_vars

\* C14: every chunk SplitBySentence emits has len(content) <= chunk_size +
\* overlap in bytes, equals its own whitespace trim and is not empty, also for
\* oversized paragraphs, oversized sentences and multi-byte characters.
C14_ChunkLengthBound ==
    chunked =>
       \A i \in 1..Len(allChunks) :
          /\ ByteLen(allChunks[i].Content) <= copts.ChunkSize + copts.Overlap
          /\ TrimSpace(allChunks[i].Content) = allChunks[i].Content
          /\ allChunks[i].Content # << >>

-----------------------------------------------------------------------------
(* Chunk identifiers over the documents of one build                       *)

\* most documents in the data directory
MaxDocs == 2

\* file names of one directory: "a b.md", "a_b.md", "c.md"
FileNames == {<<"a", " ", "b", ".", "m", "d">>,
              <<"a", "_", "b", ".", "m", "d">>,
              <<"c", ".", "m", "d">>}

FileTexts == {<< >>, <<"a">>, <<"a", "\n", "\n", "a", "a", "a">>}

\* what LoadDirectory returns: one document per file, no name twice
DocumentLists ==
    {ds \in SeqsUpTo([Name : FileNames, Content : FileTexts], MaxDocs) :
        \A i, j \in 1..Len(ds) : i # j => ds[i].Name # ds[j].Name}

InitChunkIds ==
    /\ apiKey = << >>
    /\ systemPrompt = << >>
    /\ reranker = FALSE
    /\ InitRequestState
    /\ EmbedIdle
    /\ GraphIdle
    /\ BuildIdle
    /\ copts \in ChunkerOptions
    /\ documents \in DocumentLists
    /\ allChunks = << >>
    /\ chunked = FALSE
    /\ indexIds = {}
    /\ ManifestIdle
    /\ LateIdle
    /\ FinalIdle

SpecChunkIds == InitChunkIds /\ [][NextChunk]_vars

\* C15: within one build run no two chunks have the same identifier, so after
\* a successful embedding stage into an empty index the vector count equals
\* the number of chunks.
C15_ChunkIdsUnique ==
    /\ chunked =>
          \A i, j \in 1..Len(allChunks) : i # j => allChunks[i].ID # allChunks[j].ID
    /\ indexIds # {} => Cardinality(indexIds) = Len(allChunks)

-----------------------------------------------------------------------------
(* agent.yaml: the MCP tool description written by step 5 of runBuild      *)

\* values inside a section: a scalar, or a tools list with one tool
Leaf(text) == [kind |-> "scalar", text |-> text, name |-> << >>, description |-> << >>]

ToolsValue(name, description) ==
    [kind |-> "tools", text |-> << >>, name |-> name, description |-> description]

\* values of top-level keys: a scalar or a mapping
ScalarNode(text) == [kind |-> "scalar", text |-> text, map |-> EmptyMap]

MapNode(m) == [kind |-> "map", text |-> << >>, map |-> m]

Absent == [present |-> FALSE, node |-> ScalarNode(<< >>)]

Present(node) == [present |-> TRUE, node |-> node]

\* a mapping with the given keys
MapOver(keys, Val(_)) == [k \in keys |-> Val(k)]

AgentSections ==
    {Absent,
     Present(ScalarNode(<<"x">>)),
     Present(MapNode(MapOver({"name"}, LAMBDA k : Leaf(<<"C", " ", "D">>)))),
     Present(MapNode(MapOver({"system_prompt"}, LAMBDA k : Leaf(<<"p">>))))}

ServerSections == {Absent, Present(MapNode(MapOver({"port"}, LAMBDA k : Leaf(<<"8">>))))}

McpValue(k) ==
    IF k = "tools" THEN ToolsValue(<<"o", "l", "d">>, <<"old text">>) ELSE Leaf(<<"t">>)

McpSections ==
    {Absent, Present(ScalarNode(<<"x">>))}
    \cup {Present(MapNode(MapOver(keys, McpValue))) : keys \in SUBSET {"tools", "enabled"}}

\* the mapping yaml.Unmarshal yields for the file
ConfigOf(a, sv, m) ==
    [k \in {x \in {"agent", "server", "mcp"} :
               \/ x = "agent" /\ a.present
               \/ x = "server" /\ sv.present
               \/ x = "mcp" /\ m.present} |->
        IF k = "agent" THEN a.node ELSE IF k = "server" THEN sv.node ELSE m.node]

Manifests ==
    {[config |-> ConfigOf(a, sv, m), comments |-> cm] :
        a \in AgentSections, sv \in ServerSections, m \in McpSections, cm \in BOOLEAN}

\* yaml.Unmarshal into map[string]interface{}: comments are not part of it
Unmarshal(file) == file.config

\* yaml.Marshal writes the mapping, without comments
Marshal(config) == [config |-> config, comments |-> FALSE]

\* strings.ReplaceAll(name, " ", "_")
SpacesToUnderscores(str) == [i \in 1..Len(str) |-> IF str[i] = " " THEN "_" ELSE str[i]]

\* agentName of runBuild
AgentName(config) ==
    IF /\ "agent" \in DOMAIN config
       /\ config["agent"].kind = "map"
       /\ "name" \in DOMAIN config["agent"].map
       /\ config["agent"].map["name"].kind = "scalar"
    THEN ToLower(SpacesToUnderscores(config["agent"].map["name"].text))
    ELSE <<"a", "g", "e", "n", "t">>

ToolName(agentName) == <<"search_">> \o agentName \o <<"_knowledge">>

FallbackDescription(agentName) ==
    <<"Search the ">> \o agentName
    \o <<" expert knowledge base for relevant information.">>

\* the mcp section updateAgentYAMLMCPDescription starts from
McpSectionOf(config) ==
    IF "mcp" \in DOMAIN config /\ config["mcp"].kind = "map"
    THEN config["mcp"].map ELSE EmptyMap

\* an update that writes a new mcp section holding only the tool
MutateConfig_freshSection(config, agentName, description) ==
    [k \in DOMAIN config \cup {"mcp"} |->
        IF k = "mcp"
        THEN MapNode(MapOver({"tools"},
                             LAMBDA x : ToolsValue(ToolName(agentName), description)))
        ELSE config[k]]

\* the mapping updateAgentYAMLMCPDescription marshals
MutateConfig(config, agentName, description) ==
    LET mcpSection == McpSectionOf(config)
        updated == [k \in DOMAIN mcpSection \cup {"tools"} |->
                       IF k = "tools"
                       THEN ToolsValue(ToolName(agentName), description)
                       ELSE mcpSection[k]]
    IN [k \in DOMAIN config \cup {"mcp"} |->
           IF k = "mcp" THEN MapNode(updated) ELSE config[k]]

\* step 5 up to the description: the generated text, or the fallback when
\* GenerateMCPDescription fails
describeTool ==
    /\ mpc = "start"
    /\ mpc' = "described"
    /\ mcpDesc' \in {<<"generated text">>,
                     FallbackDescription(AgentName(Unmarshal(agentYaml)))}
    /\ UNCHANGED <<agentYaml0, agentYaml>>
    /\ UNCHANGED <<serverVars, embedVars, graphVars, buildVars, chunkVars, lateVars, finalVars>>

\* updateAgentYAMLMCPDescription: the file is rewritten, or an error is
\* returned and the file stays as it is
writeManifest ==
    /\ mpc = "described"
    /\ \/ /\ agentYaml' = Marshal(MutateConfig(Unmarshal(agentYaml),
                                               AgentName(Unmarshal(agentYaml)), mcpDesc))
          /\ mpc' = "done"
       \/ /\ mpc' = "failed"
          /\ UNCHANGED agentYaml
    /\ UNCHANGED <<agentYaml0, mcpDesc>>
    /\ UNCHANGED <<serverVars, embedVars, graphVars, buildVars, chunkVars, lateVars, finalVars>>

InitManifest ==
    /\ apiKey = << >>
    /\ systemPrompt = << >>
    /\ reranker = FALSE
    /\ InitRequestState
    /\ EmbedIdle
    /\ GraphIdle
    /\ BuildIdle
    /\ ChunkIdle
    /\ LateIdle
    /\ FinalIdle
    /\ agentYaml0 \in Manifests
    /\ agentYaml = agentYaml0
    /\ mcpDesc = << >>
    /\ mpc = "start"

NextManifest ==
    \/ describeTool
    \/ writeManifest

SpecManifest == InitManifest /\ [][NextManifest]_vars

Before == agentYaml0.config

After == agentYaml.config

\* C16: the manifest update sets mcp.tools to exactly one tool, named
\* search_<slug>_knowledge and described by the generated or fallback text,
\* and every other key, at the top level and under mcp, is still present with
\* an unchanged value.
C16_ManifestFrame ==
    mpc = "done" =>
       /\ DOMAIN After = DOMAIN Before \cup {"mcp"}
       /\ \A k \in DOMAIN Before : k # "mcp" => After[k] = Before[k]
       /\ After["mcp"].kind = "map"
       /\ After["mcp"].map["tools"] = ToolsValue(ToolName(AgentName(Before)), mcpDesc)
       /\ mcpDesc \in {<<"generated text">>, FallbackDescription(AgentName(Before))}
       /\ DOMAIN After["mcp"].map = DOMAIN McpSectionOf(Before) \cup {"tools"}
       /\ \A k \in DOMAIN McpSectionOf(Before) :
             k # "tools" => After["mcp"].map[k] = McpSectionOf(Before)[k]

\* a manifest with comments, an agent name, a server section and an mcp
\* section holding an old tool and another key has been rewritten
C16_Witness ==
    /\ mpc = "done"
    /\ agentYaml0.comments
    /\ DOMAIN Before = {"agent", "server", "mcp"}
    /\ Before["mcp"].kind = "map"
    /\ DOMAIN Before["mcp"].map = {"tools", "enabled"}
    /\ AgentName(Before) = <<"c", "_", "d">>
    /\ After["mcp"].map["tools"].name = <<"search_", "c", "_", "d", "_knowledge">>
    /\ After["mcp"].map["enabled"] = Leaf(<<"t">>)
    /\ ~agentYaml.comments

-----------------------------------------------------------------------------
(* The manifest step of the build                                          *)

\* runBuild has returned after the vector and graph stores were written
ReturnedAfterStores == bpc = "done" /\ ExtractionOver

\* C17: once the vector and graph databases have been written, a failure of
\* the manifest step (reading or parsing agent.yaml, generating the
\* description, writing the file back) is only a warning: the build returns
\* no error.
C17_ManifestFailureIsWarning == ReturnedAfterStores => buildErr = ""

-----------------------------------------------------------------------------
(* JSON-RPC over POST: handleMCPRPC (/mcp) and handleA2A (/rpc/agent)       *)

\* significand width of a float64: the ID field is an interface{}, and
\* encoding/json decodes a JSON number into an interface{} as a float64
MantissaBits == 53

Zeros(n) == [i \in 1..n |-> 0]

RECURSIVE Increment(_)
\* a binary numeral, most significant bit first, plus one
Increment(bits) ==
    IF bits = << >> THEN <<1>>
    ELSE IF bits[Len(bits)] = 0
         THEN SubSeq(bits, 1, Len(bits) - 1) \o <<1>>
         ELSE Increment(SubSeq(bits, 1, Len(bits) - 1)) \o <<0>>

\* the float64 nearest to an integer literal (ties to even), as a numeral
ParseFloat64(bits) ==
    IF Len(bits) <= MantissaBits THEN bits
    ELSE LET head == SubSeq(bits, 1, MantissaBits)
             tail == SubSeq(bits, MantissaBits + 1, Len(bits))
             rest == SubSeq(tail, 2, Len(tail))
             above == tail[1] = 1 /\ \E i \in 1..Len(rest) : rest[i] = 1
             tie == tail[1] = 1 /\ \A i \in 1..Len(rest) : rest[i] = 0
             up == above \/ (tie /\ head[MantissaBits] = 1)
         IN (IF up THEN Increment(head) ELSE head) \o Zeros(Len(tail))

NumberId(bits) == [kind |-> "number", text |-> << >>, bits |-> bits]

StringId(text) == [kind |-> "string", text |-> text, bits |-> << >>]

AbsentId == [kind |-> "absent", text |-> << >>, bits |-> << >>]

\* req.ID after Decode: nil for a missing or null member, the string, or the
\* float64 of the number
DecodeID(id) ==
    CASE id.kind = "absent" -> NullId
      [] id.kind = "null" -> NullId
      [] id.kind = "string" -> id
      [] id.kind = "number" -> NumberId(ParseFloat64(id.bits))

\* ids of the requests: no id, null, "a", 1, 2^53, 2^53 + 1, 2^53 + 3
RequestIds ==
    { AbsentId, NullId, StringId(<<"a">>), NumberId(<<1>>),
      NumberId(<<1>> \o Zeros(MantissaBits)),
      NumberId(<<1>> \o Zeros(MantissaBits - 1) \o <<1>>),
      NumberId(<<1>> \o Zeros(MantissaBits - 2) \o <<1, 1>>) }

MCPMethods == {"initialize", "tools/list", "tools/call"}

A2AMethods == {"agent.info", "agent.query", "agent.search"}

RpcMethods == MCPMethods \cup A2AMethods \cup {"", "resources/list"}

RpcEndpoints == {"/mcp", "/rpc/agent"}

\* the params member: missing, null, of a type the target struct rejects, or an
\* object whose query is missing, "", a number or a text
RpcParams ==
    {NoParams, [shape |-> "null", query |-> "absent"], [shape |-> "mistyped", query |-> "absent"]}
    \cup [shape : {"object"}, query : {"absent", "empty", "number", "text"}]

RpcRequests ==
    [endpoint : RpcEndpoints, parses : BOOLEAN, id : RequestIds,
     method : RpcMethods, params : RpcParams]

RpcEnvs == [vectorErr : BOOLEAN, llmErr : BOOLEAN]

RpcError(code) == [result |-> FALSE, error |-> TRUE, code |-> code]

RpcResult == [result |-> TRUE, error |-> FALSE, code |-> 0]

\* json.Unmarshal(params, &p) returns an error; typedQuery: the struct declares
\* Query as a string, so a query of another type is an error too
UnmarshalFails(params, typedQuery) ==
    CASE params.shape = "absent" -> TRUE
      [] params.shape = "null" -> FALSE
      [] params.shape = "mistyped" -> TRUE
      [] OTHER -> typedQuery /\ params.query = "number"

\* the query the handler goes on with
QueryOf(params) ==
    IF params.shape = "object" /\ params.query = "text" THEN <<"q">> ELSE << >>

mcpCallTool(params, env) ==
    IF UnmarshalFails(params, FALSE) THEN RpcError(-32602)
    ELSE IF QueryOf(params) = << >> THEN RpcError(-32602)
    ELSE IF env.vectorErr THEN RpcError(-32603)
    ELSE RpcResult

\* a failed hybridSearch only empties the context; a failed Complete is an error
a2aQuery(params, env) ==
    IF UnmarshalFails(params, TRUE) THEN RpcError(-32602)
    ELSE IF QueryOf(params) = << >> THEN RpcError(-32602)
    ELSE IF env.llmErr THEN RpcError(-32603)
    ELSE RpcResult

\* a failed graph search is ignored
a2aSearch(params, env) ==
    IF UnmarshalFails(params, TRUE) THEN RpcError(-32602)
    ELSE IF QueryOf(params) = << >> THEN RpcError(-32602)
    ELSE IF env.vectorErr THEN RpcError(-32603)
    ELSE RpcResult

\* MCPResponse / A2AResponse as encoded: result and error are omitempty
RpcResponse(id, part) ==
    [jsonrpc |-> "2.0", id |-> id, result |-> part.result, error |-> part.error,
     code |-> part.code]

handleMCPRPC(q, env) ==
    IF ~q.parses THEN RpcResponse(NullId, RpcError(-32700))
    ELSE RpcResponse(DecodeID(q.id),
            CASE q.method = "initialize" -> RpcResult
              [] q.method = "tools/list" -> RpcResult
              [] q.method = "tools/call" -> mcpCallTool(q.params, env)
              [] OTHER -> RpcError(-32601))

handleA2APost(q, env) ==
    IF ~q.parses THEN RpcResponse(NullId, RpcError(-32700))
    ELSE RpcResponse(DecodeID(q.id),
            CASE q.method = "agent.info" -> RpcResult
              [] q.method = "agent.query" -> a2aQuery(q.params, env)
              [] q.method = "agent.search" -> a2aSearch(q.params, env)
              [] OTHER -> RpcError(-32601))

\* a POST reaches handleMCP and is answered by handleMCPRPC
postMCP ==
    /\ rpcOut = << >>
    /\ \E q \in RpcRequests, env \in RpcEnvs :
          /\ q.endpoint = "/mcp"
          /\ rpcReq' = q
          /\ rpcEnv' = env
          /\ rpcOut' = <<handleMCPRPC(q, env)>>
    /\ UNCHANGED <<serverVars, embedVars, graphVars, buildVars, chunkVars, manifestVars,
                   upVars, rerunVars, finalVars>>

\* a POST reaches handleA2A
postA2A ==
    /\ rpcOut = << >>
    /\ \E q \in RpcRequests, env \in RpcEnvs :
          /\ q.endpoint = "/rpc/agent"
          /\ rpcReq' = q
          /\ rpcEnv' = env
          /\ rpcOut' = <<handleA2APost(q, env)>>
    /\ UNCHANGED <<serverVars, embedVars, graphVars, buildVars, chunkVars, manifestVars,
                   upVars, rerunVars, finalVars>>

\* the exchange is over; the endpoint waits for the next POST
rpcNext ==
    /\ rpcOut # << >>
    /\ rpcReq' = [endpoint |-> "/mcp", parses |-> FALSE, id |-> NullId,
                  method |-> "", params |-> NoParams]
    /\ rpcEnv' = [vectorErr |-> FALSE, llmErr |-> FALSE]
    /\ rpcOut' = << >>
    /\ UNCHANGED <<serverVars, embedVars, graphVars, buildVars, chunkVars, manifestVars,
                   upVars, rerunVars, finalVars>>

InitRpc ==
    /\ apiKey = << >>
    /\ systemPrompt = << >>
    /\ reranker = FALSE
    /\ InitRequestState
    /\ EmbedIdle
    /\ GraphIdle
    /\ BuildIdle
    /\ PureIdle

NextRpc ==
    \/ postMCP
    \/ postA2A
    \/ rpcNext

SpecRpc == InitRpc /\ [][NextRpc]_vars

\* the methods an endpoint dispatches
KnownMethods(endpoint) == IF endpoint = "/mcp" THEN MCPMethods ELSE A2AMethods

\* the method takes params with a query
TakesQuery(method) == method \in {"tools/call", "agent.query", "agent.search"}

\* the params carry a query text
ParamsValid(params) == params.shape = "object" /\ params.query = "text"

\* the failure that is an internal error for the method
InternalFailure(method, env) ==
    \/ method \in {"tools/call", "agent.search"} /\ env.vectorErr
    \/ method = "agent.query" /\ env.llmErr

\* the id a response echoes: the request's id, null when it has none
EchoedId(id) == IF id.kind = "absent" THEN NullId ELSE id

\* the error code the request calls for (0: none, the method's result)
ExpectedCode(q, env) ==
    CASE ~q.parses -> -32700
      [] q.method \notin KnownMethods(q.endpoint) -> -32601
      [] TakesQuery(q.method) /\ ~ParamsValid(q.params) -> -32602
      [] TakesQuery(q.method) /\ InternalFailure(q.method, env) -> -32603
      [] OTHER -> 0

RpcServed == rpcOut # << >>

\* C18: every POST to /mcp and /rpc/agent is answered with exactly one JSON-RPC
\* 2.0 response that echoes the request id (null when the body did not parse)
\* and carries exactly one of result and error; the code is -32700 for an
\* unparsable body, -32601 for an unknown method, -32602 for missing or invalid
\* params, -32603 for an internal failure.
C18_JsonRpcResponse ==
    RpcServed =>
        /\ Len(rpcOut) = 1
        /\ rpcOut[1].jsonrpc = "2.0"
        /\ rpcOut[1].id = (IF rpcReq.parses THEN EchoedId(rpcReq.id) ELSE NullId)
        /\ rpcOut[1].result # rpcOut[1].error
        /\ rpcOut[1].code = ExpectedCode(rpcReq, rpcEnv)
        /\ rpcOut[1].error = (ExpectedCode(rpcReq, rpcEnv) # 0)

\* the same without the id
C18_CodesHold ==
    RpcServed =>
        /\ Len(rpcOut) = 1
        /\ rpcOut[1].jsonrpc = "2.0"
        /\ rpcOut[1].result # rpcOut[1].error
        /\ rpcOut[1].code = ExpectedCode(rpcReq, rpcEnv)
        /\ rpcOut[1].error = (ExpectedCode(rpcReq, rpcEnv) # 0)

-----------------------------------------------------------------------------
(* The upstream chat call of handleChatCompletions                         *)

\* sampling fields of a chat request; 0 is the zero value of a field the
\* client did not send. Temperature and top_p in tenths.
Temperatures == {0, 2, 7, 10}

TopPs == {0, 5, 9}

MaxTokenValues == {0, 16, 256}

ChatRequests ==
    [stream : BOOLEAN, temperature : Temperatures, top_p : TopPs,
     max_tokens : MaxTokenValues]

\* the request ChatWithContext hands to CreateChatCompletion: Model and
\* Messages only
ChatWithContext ==
    [sent |-> TRUE, stream |-> FALSE, temperature |-> 0, top_p |-> 0, max_tokens |-> 0]

\* the request ChatCompletionStream hands to CreateChatCompletionStream: the
\* client's request with Model and Stream overwritten
ChatCompletionStream(r) ==
    [sent |-> TRUE, stream |-> TRUE, temperature |-> r.temperature, top_p |-> r.top_p,
     max_tokens |-> r.max_tokens]

\* handleChatCompletions, req.Stream false
forwardNonStreaming ==
    /\ upstreamReq = NoCall
    /\ ~chatReq.stream
    /\ upstreamReq' = ChatWithContext
    /\ UNCHANGED <<chatReq, serverVars, embedVars, graphVars, buildVars, chunkVars,
                   manifestVars, rpcVars, rerunVars, finalVars>>

\* handleChatCompletions, req.Stream true: handleStreamingCompletion
forwardStreaming ==
    /\ upstreamReq = NoCall
    /\ chatReq.stream
    /\ upstreamReq' = ChatCompletionStream(chatReq)
    /\ UNCHANGED <<chatReq, serverVars, embedVars, graphVars, buildVars, chunkVars,
                   manifestVars, rpcVars, rerunVars, finalVars>>

InitUpstream ==
    /\ apiKey = << >>
    /\ systemPrompt = << >>
    /\ reranker = FALSE
    /\ InitRequestState
    /\ EmbedIdle
    /\ GraphIdle
    /\ BuildIdle
    /\ ChunkIdle
    /\ ManifestIdle
    /\ RpcIdle
    /\ RerunIdle
    /\ FinalIdle
    /\ chatReq \in ChatRequests
    /\ upstreamReq = NoCall

NextUpstream ==
    \/ forwardNonStreaming
    \/ forwardStreaming

SpecUpstream == InitUpstream /\ [][NextUpstream]_vars

UpstreamCalled == upstreamReq.sent

\* C19: the upstream chat call made for a chat request carries the
\* temperature, top_p and max_tokens the client sent, whether stream is true
\* or false.
C19_SamplingFieldsForwarded ==
    UpstreamCalled =>
        /\ upstreamReq.temperature = chatReq.temperature
        /\ upstreamReq.top_p = chatReq.top_p
        /\ upstreamReq.max_tokens = chatReq.max_tokens

\* the same for streaming requests only
C19_ForwardedWhenStreaming ==
    UpstreamCalled /\ chatReq.stream =>
        /\ upstreamReq.temperature = chatReq.temperature
        /\ upstreamReq.top_p = chatReq.top_p
        /\ upstreamReq.max_tokens = chatReq.max_tokens

-----------------------------------------------------------------------------
(* kash build run twice on one project directory: steps 3 and 4 of runBuild *)
(* against the stores the previous run left in data/                        *)

\* most chunks of the project's documents
MaxRerunChunks == 11

\* the quads a group's extraction response can hold
ExtractionResults ==
    { [ok |-> FALSE, triples |-> << >>],
      [ok |-> TRUE, triples |-> << >>],
      [ok |-> TRUE, triples |-> <<"q1">>],
      [ok |-> TRUE, triples |-> <<"q1", "q2">>],
      [ok |-> TRUE, triples |-> <<"q2", "q2">>] }

\* number of groups of buildBatchSize chunks
GroupCount(n) == (n + buildBatchSize - 1) \div buildBatchSize

\* ids of the chunks; with collide the second chunk has the id of the first
ChunkIdsOf(n, collide) == [i \in 1..n |-> IF collide /\ i = 2 THEN 1 ELSE i]

\* behaviours of the libraries this repository does not contain:
\* CreateCollection on an existing collection returns an error (the code then
\* uses GetCollection) or a fresh empty collection; AddQuadSet with a quad that
\* exists rejects the whole set, stops at that quad, or ignores it
DuplicateModes == {"reject", "partial", "ignore"}

\* a project: its chunks, the chunk the embeddings API rejects (0: none), the
\* extraction response of every group, and the libraries' behaviour
Projects ==
    UNION { [chunkIds : {ChunkIdsOf(n, c) : c \in BOOLEAN},
             rejected : {R \in {{}, {1}, {n}} : R \subseteq 1..n},
             groups : [1..GroupCount(n) -> ExtractionResults],
             parallel : BOOLEAN,
             freshCollection : BOOLEAN,
             duplicates : DuplicateModes] : n \in 0..MaxRerunChunks }

SeqRange(seq) == {seq[i] : i \in 1..Len(seq)}

\* a collection that keeps a second document under an id it already holds
UpsertDocument_append(coll, id) == Append(coll, id)

\* chromem Collection.AddDocument: documents are kept by id
UpsertDocument(coll, id) == IF id \in SeqRange(coll) THEN coll ELSE Append(coll, id)

RECURSIVE AddDocuments(_, _)
\* collection.AddDocuments for documents that all embed
AddDocuments(coll, ids) ==
    IF ids = << >> THEN coll
    ELSE AddDocuments(UpsertDocument(coll, ids[1]), SubSeq(ids, 2, Len(ids)))

\* NewPersistentStore: the collection the run works on
OpenCollection(stored, fresh) == IF fresh THEN << >> ELSE stored

\* positions of the chunks a failed AddChunks has stored: sequentially those
\* before the rejected one, concurrently some of the others
StoredOnFailure(n, r, par) ==
    IF par THEN {(1..j) \ {r} : j \in 0..n} ELSE {1..(r - 1)}

HasDuplicates(qs) == \E i, j \in 1..Len(qs) : i # j /\ qs[i] = qs[j]

RECURSIVE AddUntilDuplicate(_, _)
AddUntilDuplicate(store, qs) ==
    IF qs = << >> THEN [store |-> store, err |-> FALSE]
    ELSE IF qs[1] \in SeqRange(store) THEN [store |-> store, err |-> TRUE]
    ELSE AddUntilDuplicate(Append(store, qs[1]), SubSeq(qs, 2, Len(qs)))

RECURSIVE AddIgnoringDuplicates(_, _)
AddIgnoringDuplicates(store, qs) ==
    IF qs = << >> THEN [store |-> store, err |-> FALSE]
    ELSE AddIgnoringDuplicates(
            IF qs[1] \in SeqRange(store) THEN store ELSE Append(store, qs[1]),
            SubSeq(qs, 2, Len(qs)))

\* store.AddQuadSet(quads)
AddQuadSet(store, qs, mode) ==
    CASE mode = "reject" ->
            IF HasDuplicates(qs) \/ SeqRange(qs) \cap SeqRange(store) # {}
            THEN [store |-> store, err |-> TRUE]
            ELSE [store |-> store \o qs, err |-> FALSE]
      [] mode = "partial" -> AddUntilDuplicate(store, qs)
      [] OTHER -> AddIgnoringDuplicates(store, qs)

\* DB.AddTriples, for triples with non-empty fields
AddTriplesTo(store, ts, mode) ==
    IF Len(ts) = 0 THEN [store |-> store, err |-> FALSE]
    ELSE AddQuadSet(store, ts, mode)

RECURSIVE ExtractGroups(_, _, _)
\* the loop of step 4: a group whose extraction fails is skipped, a group whose
\* AddTriples fails is a warning
ExtractGroups(store, groups, mode) ==
    IF groups = << >> THEN store
    ELSE LET rest == SubSeq(groups, 2, Len(groups))
         IN IF ~groups[1].ok THEN ExtractGroups(store, rest, mode)
            ELSE ExtractGroups(AddTriplesTo(store, groups[1].triples, mode).store, rest, mode)

Counts(v, d, t) == [vectors |-> v, stored |-> d, triples |-> t]

\* one kash build: steps 3 and 4 of runBuild on the project directory
rebuild ==
    /\ runs < 2
    /\ runs' = runs + 1
    /\ LET ids == project.chunkIds
           n == Len(ids)
           opened == OpenCollection(vectorDocs, project.freshCollection)
       IN IF project.rejected # {}
          THEN \E kept \in StoredOnFailure(n, CHOOSE r \in project.rejected : TRUE,
                                           project.parallel) :
                  LET part == SelectSeq(ids, LAMBDA id : \E i \in kept : ids[i] = id)
                  IN /\ vectorDocs' = AddDocuments(vectorDocs, part)
                     /\ graphQuads' = graphQuads
                     /\ runErrs' = Append(runErrs, EmbedError)
                     /\ counts' = Append(counts,
                                     Counts(Len(AddDocuments(opened, part)),
                                            Len(AddDocuments(vectorDocs, part)),
                                            Len(graphQuads)))
          ELSE LET quadsAfter == ExtractGroups(graphQuads, project.groups, project.duplicates)
               IN /\ vectorDocs' = AddDocuments(vectorDocs, ids)
                  /\ graphQuads' = quadsAfter
                  /\ runErrs' = Append(runErrs, "")
                  /\ counts' = Append(counts,
                                  Counts(Len(AddDocuments(opened, ids)),
                                         Len(AddDocuments(vectorDocs, ids)),
                                         Len(quadsAfter)))
    /\ UNCHANGED <<project, serverVars, embedVars, graphVars, buildVars, chunkVars,
                   manifestVars, rpcVars, upVars, finalVars>>

InitRerun ==
    /\ apiKey = << >>
    /\ systemPrompt = << >>
    /\ reranker = FALSE
    /\ InitRequestState
    /\ EmbedIdle
    /\ GraphIdle
    /\ BuildIdle
    /\ ChunkIdle
    /\ ManifestIdle
    /\ RpcIdle
    /\ UpstreamIdle
    /\ FinalIdle
    /\ project \in Projects
    /\ runs = 0
    /\ vectorDocs = << >>
    /\ graphQuads = << >>
    /\ counts = << >>
    /\ runErrs = << >>

NextRerun == rebuild

SpecRerun == InitRerun /\ [][NextRerun]_vars

BuiltTwice == runs = 2

FirstBuildSucceeded == Len(runErrs) >= 1 /\ runErrs[1] = ""

\* C20: after two builds in a row of an unchanged document set with the same
\* upstream responses, where the first build completed, the vector count and
\* the triple count after the second build equal those after the first.
C20_CountsStableAcrossRuns ==
    BuiltTwice /\ FirstBuildSucceeded =>
        /\ runErrs[2] = ""
        /\ counts[2] = counts[1]

\* both builds stored vectors and triples, and the second met duplicates
C20_Witness ==
    /\ BuiltTwice
    /\ FirstBuildSucceeded
    /\ counts[1].vectors > 1
    /\ counts[1].triples > 1
    /\ Len(project.chunkIds) > counts[1].vectors
    /\ ~project.freshCollection

-----------------------------------------------------------------------------
(* The entry points of the chunker: SplitBySentence and ChunkText on a     *)
(* Chunker made by NewChunker, and ChunkDocument                           *)

\* longest text handed to an entry point, in runes
MaxEntryLen == 4
\* largest chunk size and overlap of a call
MaxEntrySize == 2

ErrInvalidChunkSize == "chunk size must be greater than 0"

ErrInvalidUTF8 == "text is not valid UTF-8"

Failed(e) == [returned |-> TRUE, err |-> e, chunks |-> << >>]

Returned(chunks) == [returned |-> TRUE, err |-> "", chunks |-> chunks]

\* NewChunker returns ErrInvalidChunkSize
NewChunkerFails(opts) == opts.ChunkSize <= 0

\* NewChunker, then Chunker.SplitBySentence
CallSplitBySentence(e) ==
    LET opts == [ChunkSize |-> e.chunkSize, Overlap |-> e.overlap]
    IN IF NewChunkerFails(opts) THEN Failed(ErrInvalidChunkSize)
       ELSE IF ~ValidString(e.text) THEN Failed(ErrInvalidUTF8)
       ELSE Returned(SplitBySentence(NewChunker(opts), e.text, e.source))

\* NewChunker, then Chunker.ChunkText
CallChunkText(e) ==
    LET opts == [ChunkSize |-> e.chunkSize, Overlap |-> e.overlap]
    IN IF NewChunkerFails(opts) THEN Failed(ErrInvalidChunkSize)
       ELSE Returned(ChunkText(NewChunker(opts), e.text, e.source))

\* ChunkDocument(text, chunkSize)
ChunkDocument(text, chunkSize) ==
    LET opts == [ChunkSize |-> chunkSize, Overlap |-> chunkSize \div 5]
    IN IF chunkSize <= 0 THEN Failed(ErrInvalidChunkSize)
       ELSE IF NewChunkerFails(opts) THEN Failed(ErrInvalidChunkSize)
       ELSE Returned(ChunkText(NewChunker(opts), text, << >>))

EntryRunes == {"a", " ", "XX"}

EntrySources == {<<"a", ".", "m", "d">>, <<"d", "/", "a", " ", "b">>}

\* the calls: ChunkDocument takes no overlap and no source
EntryCalls ==
    [fn : {"SplitBySentence", "ChunkText"}, chunkSize : -1..MaxEntrySize,
     overlap : -1..MaxEntrySize, text : SeqsUpTo(EntryRunes, MaxEntryLen),
     source : EntrySources]
    \cup [fn : {"ChunkDocument"}, chunkSize : -1..MaxEntrySize, overlap : {0},
          text : SeqsUpTo(EntryRunes, MaxEntryLen), source : {<< >>}]

callSplitBySentence ==
    /\ ~result.returned
    /\ entry.fn = "SplitBySentence"
    /\ result' = CallSplitBySentence(entry)
    /\ UNCHANGED <<entry, tuneVars, loopVars, pairVars, toolVars>>
    /\ UNCHANGED <<serverVars, embedVars, graphVars, buildVars, chunkVars, manifestVars,
                   lateVars>>

callChunkText ==
    /\ ~result.returned
    /\ entry.fn = "ChunkText"
    /\ result' = CallChunkText(entry)
    /\ UNCHANGED <<entry, tuneVars, loopVars, pairVars, toolVars>>
    /\ UNCHANGED <<serverVars, embedVars, graphVars, buildVars, chunkVars, manifestVars,
                   lateVars>>

callChunkDocument ==
    /\ ~result.returned
    /\ entry.fn = "ChunkDocument"
    /\ result' = ChunkDocument(entry.text, entry.chunkSize)
    /\ UNCHANGED <<entry, tuneVars, loopVars, pairVars, toolVars>>
    /\ UNCHANGED <<serverVars, embedVars, graphVars, buildVars, chunkVars, manifestVars,
                   lateVars>>

\* everything but the chunker's entry points is idle
EntryFrame ==
    /\ apiKey = << >>
    /\ systemPrompt = << >>
    /\ reranker = FALSE
    /\ InitRequestState
    /\ EmbedIdle
    /\ GraphIdle
    /\ BuildIdle
    /\ ChunkIdle
    /\ ManifestIdle
    /\ LateIdle
    /\ TuneIdle
    /\ LoopIdle
    /\ PairIdle
    /\ ToolIdle

InitEntry ==
    /\ EntryFrame
    /\ entry \in EntryCalls
    /\ result = NoResult

NextEntry ==
    \/ callSplitBySentence
    \/ callChunkText
    \/ callChunkDocument

SpecEntry == InitEntry /\ [][NextEntry]_vars

\* C21: for every chunker entry point a chunk_size <= 0 is rejected with
\* ErrInvalidChunkSize and a text that is not valid UTF-8 is rejected with an
\* error, both without any chunk; an empty text is no error and gives no chunk.
C21_EntryPointsValidate ==
    result.returned =>
        /\ entry.chunkSize <= 0 => result.err = ErrInvalidChunkSize /\ result.chunks = << >>
        /\ ~ValidString(entry.text) => result.err # "" /\ result.chunks = << >>
        /\ entry.chunkSize > 0 /\ entry.text = << >> =>
              result.err = "" /\ result.chunks = << >>

\* the same, where invalid UTF-8 is looked at for SplitBySentence only
C21_SplitBySentenceValidates ==
    result.returned =>
        /\ entry.chunkSize <= 0 => result.err = ErrInvalidChunkSize /\ result.chunks = << >>
        /\ entry.fn = "SplitBySentence" /\ ~ValidString(entry.text) =>
              result.err # "" /\ result.chunks = << >>
        /\ entry.chunkSize > 0 /\ entry.text = << >> =>
              result.err = "" /\ result.chunks = << >>

-----------------------------------------------------------------------------
(* OptionsFromMaxTokens: chunk options from the embedder's token limit     *)

\* largest token limit looked at
MaxTokens == 8192

DefaultOptions == [ChunkSize |-> 1000, Overlap |-> 200]

\* int(x * 0.9) for the float64 x of an integer n below 2^31: the float64
\* nearest 0.9 lies above 0.9 by less than 2^-55, so the rounded product is at
\* least 9n/10 when that is an integer and stays below the next integer
\* otherwise; the conversion truncates it
TimesPointNine(n) == (n * 9) \div 10

\* the options without the floor of 200
OptionsFromMaxTokens_noFloor(T) ==
    IF T <= 0 THEN DefaultOptions
    ELSE [ChunkSize |-> TimesPointNine(T * 4), Overlap |-> TimesPointNine(T * 4) \div 5]

OptionsFromMaxTokens(T) ==
    IF T <= 0 THEN DefaultOptions
    ELSE LET raw == TimesPointNine(T * 4)
             chunkSize == IF raw < 200 THEN 200 ELSE raw
         IN [ChunkSize |-> chunkSize, Overlap |-> chunkSize \div 5]

\* runBuild, step 2: the options are computed from max_tokens
tuneOptions ==
    /\ ~tuned.set
    /\ tuned' = [set |-> TRUE,
                 ChunkSize |-> OptionsFromMaxTokens(maxTokens).ChunkSize,
                 Overlap |-> OptionsFromMaxTokens(maxTokens).Overlap]
    /\ UNCHANGED <<maxTokens, entryVars, loopVars, pairVars, toolVars>>
    /\ UNCHANGED <<serverVars, embedVars, graphVars, buildVars, chunkVars, manifestVars,
                   lateVars>>

InitTune ==
    /\ apiKey = << >>
    /\ systemPrompt = << >>
    /\ reranker = FALSE
    /\ InitRequestState
    /\ EmbedIdle
    /\ GraphIdle
    /\ BuildIdle
    /\ ChunkIdle
    /\ ManifestIdle
    /\ LateIdle
    /\ EntryIdle
    /\ LoopIdle
    /\ PairIdle
    /\ ToolIdle
    /\ maxTokens \in -2..MaxTokens
    /\ tuned = [set |-> FALSE, ChunkSize |-> 0, Overlap |-> 0]

NextTune == tuneOptions

SpecTune == InitTune /\ [][NextTune]_vars

Max(a, b) == IF a >= b THEN a ELSE b

\* C22: OptionsFromMaxTokens(T) gives chunk_size = max(200, floor(T * 4 * 0.9))
\* and overlap = chunk_size / 5 for T > 0 (8192 gives 29491, 512 gives 1843),
\* 1000 and 200 for T <= 0, and always 0 <= overlap < chunk_size.
C22_OptionsFromMaxTokens ==
    tuned.set =>
        /\ maxTokens > 0 =>
              /\ tuned.ChunkSize = Max(200, (maxTokens * 36) \div 10)
              /\ tuned.Overlap = tuned.ChunkSize \div 5
        /\ maxTokens <= 0 => tuned.ChunkSize = 1000 /\ tuned.Overlap = 200
        /\ maxTokens = 8192 => tuned.ChunkSize = 29491
        /\ maxTokens = 512 => tuned.ChunkSize = 1843
        /\ 0 <= tuned.Overlap /\ tuned.Overlap < tuned.ChunkSize

\* the options for a limit of 8192 tokens were computed
C22_Witness ==
    tuned.set /\ maxTokens = 8192 /\ tuned.ChunkSize = 29491 /\ tuned.Overlap = 5898

-----------------------------------------------------------------------------
(* SplitBySentence against its input                                       *)

\* longest text split, in runes
MaxSplitLen == 5
\* largest chunk size of a split
MaxSplitSize == 4

SplitRunes == {"a", " ", ".", "\n"}

\* the splits: a valid chunk size, no overlap or an overlap of one
SplitCalls ==
    [fn : {"SplitBySentence"}, chunkSize : 1..MaxSplitSize, overlap : {0, 1},
     text : SeqsUpTo(SplitRunes, MaxSplitLen), source : {<<"a", ".", "m", "d">>}]

InitSplit ==
    /\ EntryFrame
    /\ entry \in SplitCalls
    /\ result = NoResult

NextSplit == callSplitBySentence

SpecSplit == InitSplit /\ [][NextSplit]_vars

\* c is a contiguous stretch of s
IsStretch(c, s) ==
    \E i \in 0..(Len(s) - Len(c)) : SubSeq(s, i + 1, i + Len(c)) = c

\* the characters of s that are not whitespace, in order
NonSpace(s) == SelectSeq(s, LAMBDA ch : ~IsSpace(ch))

RECURSIVE Contents(_)
\* the contents of the chunks, one after the other
Contents(chunks) ==
    IF chunks = << >> THEN << >> ELSE Head(chunks).Content \o Contents(Tail(chunks))

\* C23: for valid input the chunks of SplitBySentence, put together in order,
\* give back the CR-LF-normalized input up to whitespace at chunk boundaries:
\* every chunk is the same text as a stretch of the input, and (with no overlap
\* to remove) no non-whitespace character is lost, duplicated or reordered.
C23_ChunksReconstructInput ==
    result.returned /\ result.err = "" =>
        /\ \A k \in 1..Len(result.chunks) :
              IsStretch(result.chunks[k].Content, ReplaceCRLF(entry.text))
        /\ entry.overlap = 0 =>
              NonSpace(Contents(result.chunks)) = NonSpace(ReplaceCRLF(entry.text))

\* the part that holds: without overlap the non-whitespace characters of the
\* chunks are those of the input, in order
C23_NonSpacePreserved ==
    result.returned /\ result.err = "" /\ entry.overlap = 0 =>
        NonSpace(Contents(result.chunks)) = NonSpace(ReplaceCRLF(entry.text))

-----------------------------------------------------------------------------
(* agent.query in detail: what a2aQuery reads of its params                *)

\* the history member: missing, an array of message objects, or a JSON value
\* that is no array of objects
Histories ==
    { [typed |-> TRUE, msgs |-> << >>],
      [typed |-> TRUE, msgs |-> <<"h1">>],
      [typed |-> TRUE, msgs |-> <<"h1", "h2">>],
      [typed |-> FALSE, msgs |-> << >>] }

QueryParams ==
    [query : {<< >>, <<"q">>}, system_prompt : {<< >>, <<"p">>}, history : Histories]

\* what the stores and the model answer: hybridSearch fails or returns a
\* context for the query, Complete fails or answers its input
QueryEnvs == [searchErr : BOOLEAN, ctx : {<< >>, <<"c">>}, llmErr : BOOLEAN]

TheAgentName == <<"agent">>

\* json.Unmarshal(params, &p) of a2aQuery fails on a history that is no array
\* of objects
QueryUnmarshalFails(p) == ~p.history.typed

\* the arguments of s.llmClient.Complete, with the history put in as well
CompleteInput_withHistory(sp, rctx, p) ==
    [system |-> sp \o <<"\n", "\n">> \o rctx, user |-> p.query \o p.history.msgs]

\* the arguments of s.llmClient.Complete
CompleteInput(sp, rctx, p) ==
    [system |-> sp \o <<"\n", "\n">> \o rctx, user |-> p.query]

NoInput == [system |-> << >>, user |-> << >>]

\* the upstream model answers as a function of its input
AnswerTo(input) == <<"answer", "to">> \o input.system \o input.user

QueryRejected(code) ==
    [code |-> code, searched |-> FALSE, retrieval |-> << >>, asked |-> FALSE,
     input |-> NoInput, answer |-> << >>, context |-> << >>, agent |-> << >>]

\* a2aQuery, with the retrieval query and the LLM input it issued
a2aQueryCall(p, agentPrompt, env) ==
    IF QueryUnmarshalFails(p) THEN QueryRejected(-32602)
    ELSE IF p.query = << >> THEN QueryRejected(-32602)
    ELSE LET rctx == IF env.searchErr THEN << >> ELSE env.ctx
             sp == IF p.system_prompt # << >> THEN p.system_prompt ELSE agentPrompt
             input == CompleteInput(sp, rctx, p)
         IN IF env.llmErr
            THEN [code |-> -32603, searched |-> TRUE, retrieval |-> p.query,
                  asked |-> TRUE, input |-> input, answer |-> << >>,
                  context |-> << >>, agent |-> << >>]
            ELSE [code |-> 0, searched |-> TRUE, retrieval |-> p.query,
                  asked |-> TRUE, input |-> input, answer |-> AnswerTo(input),
                  context |-> rctx, agent |-> TheAgentName]

\* two requests that differ at most in history, and the upstream responses
QueryPairs ==
    {<<p1, p2, env>> : p1 \in QueryParams, p2 \in QueryParams, env \in QueryEnvs}

\* the next of the two agent.query requests is answered
answerQuery ==
    /\ Len(pairOut) < 2
    /\ pairOut' = Append(pairOut,
                         a2aQueryCall(queryPair[Len(pairOut) + 1], systemPrompt, queryPair[3]))
    /\ UNCHANGED <<queryPair, entryVars, tuneVars, loopVars, toolVars>>
    /\ UNCHANGED <<serverVars, embedVars, graphVars, buildVars, chunkVars, manifestVars,
                   lateVars>>

InitPair ==
    /\ apiKey = << >>
    /\ systemPrompt \in SystemPrompts
    /\ reranker = FALSE
    /\ InitRequestState
    /\ EmbedIdle
    /\ GraphIdle
    /\ BuildIdle
    /\ ChunkIdle
    /\ ManifestIdle
    /\ LateIdle
    /\ EntryIdle
    /\ TuneIdle
    /\ LoopIdle
    /\ ToolIdle
    /\ queryPair \in {t \in QueryPairs :
                        /\ t[1].query = t[2].query
                        /\ t[1].system_prompt = t[2].system_prompt}
    /\ pairOut = << >>

NextPair == answerQuery

SpecPair == InitPair /\ [][NextPair]_vars

BothAnswered == Len(pairOut) = 2

-----------------------------------------------------------------------------
(* addChunksSequential: batches, attempts and waits                        *)

\* the AddDocuments calls that repeat a batch
Retries == SelectSeq(embedCalls, LAMBDA call : call[2] > 0)

\* the waits that were followed by another attempt: the wait after the last
\* allowed attempt is not
WaitsBeforeRetry == SelectSeq(waits, LAMBDA w : w < 16)

\* the calls go through the batches in list order, each batch at most five times
BatchesInOrder ==
    /\ \A i \in 1..Len(embedCalls) :
          /\ embedCalls[i][1] % 20 = 0
          /\ embedCalls[i][1] < nChunks
          /\ embedCalls[i][2] \in 0..4
    /\ Len(embedCalls) > 0 => embedCalls[1] = <<0, 0>>
    /\ \A i \in 1..(Len(embedCalls) - 1) :
          \/ /\ embedCalls[i + 1][1] = embedCalls[i][1]
             /\ embedCalls[i + 1][2] = embedCalls[i][2] + 1
          \/ /\ embedCalls[i + 1][1] = embedCalls[i][1] + 20
             /\ embedCalls[i + 1][2] = 0
    /\ Len(embedCalls) > 0 =>
          LET last == embedCalls[Len(embedCalls)][1]
          IN /\ 1..last \subseteq embedded
             /\ embedded \subseteq 1..Min(last + 20, nChunks)

\* every repeated attempt comes after its wait of 1, 2, 4 or 8 seconds, and
\* the waits of a batch are 1, 2, 4, 8, 16
WaitsDouble ==
    /\ \A j \in 1..Len(waits) : waits[j] \in {1, 2, 4, 8, 16}
    /\ Len(Retries) <= Len(WaitsBeforeRetry)
    /\ Len(WaitsBeforeRetry) <= Len(Retries) + 1
    /\ \A j \in 1..Len(Retries) :
          WaitsBeforeRetry[j] = <<1, 2, 4, 8>>[Retries[j][2]]

\* a step that ends the build from the attempt loop waits for nothing, and a
\* wait only follows an attempt that failed; after the end nothing is sent
AbortAtOnce ==
    /\ bpc = "embed" /\ bpc' = "done" => waits' = waits
    /\ waits' # waits => bpc = "backoff"
    /\ bpc = "done" => embedCalls' = embedCalls /\ waits' = waits

\* C25: in sequential mode the chunks are sent in list order in batches of 20,
\* one batch at a time, each batch at most 5 times; another attempt is made only
\* after a rate-limit failure and a wait that doubles per attempt (1, 2, 4, 8,
\* 16 seconds); any other failure ends the batch at once, with no retry and no
\* wait.
C25_SequentialEmbedding ==
    /\ [](~parallel => BatchesInOrder /\ WaitsDouble)
    /\ [][~parallel => AbortAtOnce]_vars

\* the first batch went through on its third attempt, after waits of 1 and 2
\* seconds, and the second batch was sent
C25_Witness ==
    /\ ~parallel
    /\ nChunks = 21
    /\ embedCalls = <<<<0, 0>>, <<0, 1>>, <<0, 2>>, <<20, 0>>>>
    /\ waits = <<1, 2>>

-----------------------------------------------------------------------------
(* The middleware stack: request-log, CORS, auth, route                    *)

\* the request is inside the mux or one of its handlers
InRoute == pc \in {"mux", "vector", "graph", "llm", "recv"} \/ handlerRan # "none"

\* the request is one authMiddleware answers itself
AuthRejects ==
    /\ apiKey # << >>
    /\ req.path # "/health"
    /\ req.method # "OPTIONS"
    /\ req.auth # ExactBearer

\* a stage runs only after the stages before it handed the request on
StagesInOrder ==
    /\ pc \in {"auth", "logret", "done"} \/ InRoute => corsHeaders
    /\ pc # "idle" /\ req.method = "OPTIONS" =>
          /\ pc \in {"cors", "logret", "done"}
          /\ ~InRoute
          /\ pc # "cors" => status = 204
    /\ pc # "idle" /\ AuthRejects =>
          /\ ~InRoute
          /\ pc \in {"logret", "done"} => status = 401 /\ corsHeaders
    /\ logLines = IF pc = "done" THEN 1 ELSE 0

\* the log line is written when the chain has returned, with the status it left
LogAfterStatus ==
    /\ logLines' > logLines =>
          /\ pc = "logret"
          /\ logLines' = logLines + 1
          /\ status' = status
          /\ status # 0
    /\ pc = "cors" => pc' \in {"auth", "logret"}
    /\ pc = "auth" => pc' \in {"mux", "logret"}

\* C26: every request passes request-log, CORS, auth and route in this order
\* and a stage runs only if the earlier ones handed the request on: a preflight
\* is answered by CORS and reaches neither auth nor a handler, a request auth
\* rejects reaches no handler but carries the CORS headers, and every request
\* gives exactly one log line, written after its status is known.
C26_MiddlewareOrder ==
    /\ []StagesInOrder
    /\ [][LogAfterStatus]_vars

\* a request that auth rejected was logged, with the CORS headers set
C26_Witness ==
    /\ pc = "done"
    /\ AuthRejects
    /\ status = 401
    /\ corsHeaders
    /\ logLines = 1
    /\ handlerRan = "none"

-----------------------------------------------------------------------------
(* The score of a fact against the tokens of the query                     *)

\* the query's tokens: split at whitespace, lowercased, shorter than 3 dropped
Tokens(query) ==
    LET fs == Fields(ToLower(query))
    IN {fs[i] : i \in {j \in 1..Len(fs) : Len(fs[j]) >= 3}}

\* the query holds a token of at least 3 characters more than once
HasRepeatedToken(query) ==
    LET fs == Fields(ToLower(query))
    IN \E i, j \in 1..Len(fs) : i < j /\ fs[i] = fs[j] /\ Len(fs[i]) >= 3

\* the number of distinct tokens of the last query that occur in the i-th quad
DistinctScore(i) ==
    Cardinality({t \in Tokens(searchQuery) :
                    Contains(ToLower(quads[i].subject \o <<" ">> \o quads[i].predicate
                                     \o <<" ">> \o quads[i].object), t)})

\* C27: the score of a fact is the number of distinct query tokens (split at
\* whitespace, lowercased, tokens under 3 characters dropped) that occur,
\* ignoring case, in subject, predicate and object put together, so repeating a
\* token changes no score; a query without a token of 3 characters gives no
\* fact.
C27_ScoreCountsDistinctTokens ==
    SearchDone =>
       /\ \A n \in 1..Len(searchResults) :
             searchResults[n].score = DistinctScore(StoreIndex(searchResults[n]))
       /\ Tokens(searchQuery) = {} => searchResults = << >>

\* the same for queries that repeat no token
C27_ScoreWithoutRepeats ==
    SearchDone /\ ~HasRepeatedToken(searchQuery) =>
       /\ \A n \in 1..Len(searchResults) :
             searchResults[n].score = DistinctScore(StoreIndex(searchResults[n]))
       /\ Tokens(searchQuery) = {} => searchResults = << >>

-----------------------------------------------------------------------------
(* Numbering of the returned chunks                                        *)

\* sanitize(source) + "_" + k
NumberedID(source, k) == Sanitize(source) \o <<"_">> \o itoa(k)

\* the k-th returned chunk, counted from 0, has Index k and the ID of k
NumberedFromZero(chunks, source) ==
    \A k \in 0..(Len(chunks) - 1) :
       /\ chunks[k + 1].Index = k
       /\ chunks[k + 1].ID = NumberedID(source, k)

\* C28: for every chunk list the chunker returns, from SplitBySentence and
\* from ChunkText and ChunkDocument, the k-th chunk (from 0) has Index k and ID
\* sanitize(source) + "_" + k; chunks skipped as empty leave no gap.
C28_ChunksNumbered ==
    result.returned /\ result.err = "" => NumberedFromZero(result.chunks, entry.source)

\* the same for the lists SplitBySentence returns
C28_SplitBySentenceNumbered ==
    result.returned /\ result.err = "" /\ entry.fn = "SplitBySentence" =>
        NumberedFromZero(result.chunks, entry.source)

\* ChunkText and ChunkDocument: the indices rise and the ID is built from the
\* chunk's own index
C28_WindowIndexRises ==
    result.returned /\ result.err = "" /\ entry.fn # "SplitBySentence" =>
        /\ \A k \in 1..Len(result.chunks) :
              result.chunks[k].ID = buildChunkID(entry.source, result.chunks[k].Index)
        /\ \A k \in 1..(Len(result.chunks) - 1) :
              result.chunks[k].Index < result.chunks[k + 1].Index

-----------------------------------------------------------------------------
(* MCP tools/call: the top_k argument and the vector hits of the context   *)

\* most documents in the vector index
MaxStored == 8
\* largest top_k of a call
MaxTopK == 7

\* collection.Query of the index library with nResults above the number of
\* stored documents: the library is not part of the sources, it may refuse the
\* query or return every document
CollectionQuery(stored, nResults) ==
    IF nResults > stored
    THEN {[err |-> TRUE, hits |-> 0], [err |-> FALSE, hits |-> stored]}
    ELSE {[err |-> FALSE, hits |-> nResults]}

\* Store.Query: the hits for a non-empty query
StoreQuery(stored, topK) == CollectionQuery(stored, IF topK <= 0 THEN 5 ELSE topK)

\* hybridSearch: one "[i] Source" entry per hit of vectorStore.Query(ctx, query, 5)
hybridSearchHits(stored) == StoreQuery(stored, 5)

\* topK of mcpCallTool; top_k = 0 stands for a call without a positive top_k
ToolTopK(top_k) == IF top_k > 0 THEN top_k ELSE 5

\* mcpCallTool for a call with a query: topK is computed and dropped
mcpCallToolHits(call) ==
    LET topK == ToolTopK(call.top_k)
    IN hybridSearchHits(call.stored)

\* a tools/call request is answered
callTool ==
    /\ ~toolOut.served
    /\ \E o \in mcpCallToolHits(toolCall) :
          toolOut' = [served |-> TRUE, err |-> o.err, hits |-> o.hits]
    /\ UNCHANGED <<toolCall, entryVars, tuneVars, loopVars, pairVars>>
    /\ UNCHANGED <<serverVars, embedVars, graphVars, buildVars, chunkVars, manifestVars,
                   lateVars>>

InitTool ==
    /\ apiKey = << >>
    /\ systemPrompt = << >>
    /\ reranker = FALSE
    /\ InitRequestState
    /\ EmbedIdle
    /\ GraphIdle
    /\ BuildIdle
    /\ ChunkIdle
    /\ ManifestIdle
    /\ LateIdle
    /\ EntryIdle
    /\ TuneIdle
    /\ LoopIdle
    /\ PairIdle
    /\ toolCall \in [top_k : 0..MaxTopK, stored : 0..MaxStored]
    /\ toolOut = [served |-> FALSE, err |-> FALSE, hits |-> 0]

NextTool == callTool

SpecTool == InitTool /\ [][NextTool]_vars

\* C29: a tools/call with top_k = n > 0 returns a context with at most n
\* vector hits, and with at most 5 when top_k is absent.
C29_TopKLimitsHits ==
    toolOut.served /\ ~toolOut.err =>
        toolOut.hits <= (IF toolCall.top_k > 0 THEN toolCall.top_k ELSE 5)

\* whatever top_k is, the context holds at most 5 vector hits
C29_AtMostFiveHits == toolOut.served => toolOut.hits <= 5

-----------------------------------------------------------------------------
(* The window loop of ChunkText, one iteration at a time                   *)

\* longest text the loop runs over, in runes
MaxLoopLen == 5
\* largest chunk size of the loop
MaxLoopSize == 3

\* step := ChunkSize - Overlap, ChunkSize when that is not positive
StepOf(opts) ==
    IF opts.ChunkSize - opts.Overlap <= 0 THEN opts.ChunkSize
    ELSE opts.ChunkSize - opts.Overlap

\* one iteration of 'for start := 0; start < total; start += step'
cutWindow ==
    /\ ~wDone
    /\ wStart < Len(wRunes)
    /\ LET end == Min(wStart + wOpts.ChunkSize, Len(wRunes))
           content == TrimSpace(SubSeq(wRunes, wStart + 1, end))
       IN /\ windows' = Append(windows, <<wStart, end>>)
          /\ IF content # << >> /\ end = Len(wRunes)
             THEN wDone' = TRUE /\ wStart' = wStart
             ELSE wDone' = FALSE /\ wStart' = wStart + StepOf(wOpts)
    /\ UNCHANGED <<wOpts, wRunes, entryVars, tuneVars, pairVars, toolVars>>
    /\ UNCHANGED <<serverVars, embedVars, graphVars, buildVars, chunkVars, manifestVars,
                   lateVars>>

\* the loop condition start < total fails: ChunkText returns
endLoop ==
    /\ ~wDone
    /\ wStart >= Len(wRunes)
    /\ wDone' = TRUE
    /\ UNCHANGED <<wOpts, wRunes, wStart, windows, entryVars, tuneVars, pairVars, toolVars>>
    /\ UNCHANGED <<serverVars, embedVars, graphVars, buildVars, chunkVars, manifestVars,
                   lateVars>>

\* ChunkText is called on a Chunker that NewChunker returned
InitLoop ==
    /\ apiKey = << >>
    /\ systemPrompt = << >>
    /\ reranker = FALSE
    /\ InitRequestState
    /\ EmbedIdle
    /\ GraphIdle
    /\ BuildIdle
    /\ ChunkIdle
    /\ ManifestIdle
    /\ LateIdle
    /\ EntryIdle
    /\ TuneIdle
    /\ PairIdle
    /\ ToolIdle
    /\ \E cs \in 1..MaxLoopSize, ov \in -1..(MaxLoopSize + 1) :
          LET c == NewChunker([ChunkSize |-> cs, Overlap |-> ov])
          IN wOpts = [ChunkSize |-> c.ChunkSize, Overlap |-> c.Overlap, asked |-> ov]
    /\ wRunes \in SeqsUpTo({"a", " "}, MaxLoopLen)
    /\ wStart = 0
    /\ windows = << >>
    /\ wDone = FALSE

NextLoop ==
    \/ cutWindow
    \/ endLoop

SpecLoop == InitLoop /\ [][NextLoop]_vars

\* the loop runs on: a goroutine that is in the loop takes its next step
SpecLoopFair == SpecLoop /\ WF_vars(NextLoop)

\* the i-th rune lies in a window
InWindow(i) == \E n \in 1..Len(windows) : windows[n][1] < i /\ i <= windows[n][2]

\* when the loop has ended every rune lies in a window, and the loop has cut
\* no more windows than there are runes
WindowsCover ==
    /\ Len(windows) <= Len(wRunes)
    /\ wDone => \A i \in 1..Len(wRunes) : InWindow(i)

\* start moves by ChunkSize - Overlap, which is at least 1
AdvancesByStride ==
    wStart' # wStart =>
        /\ wStart' = wStart + (wOpts.ChunkSize - wOpts.Overlap)
        /\ wOpts.ChunkSize - wOpts.Overlap >= 1

\* C30: for every text and every Chunker NewChunker returns (chunk_size >= 1,
\* any overlap, negative or >= chunk_size included, chunk_size = 1) the window
\* loop of ChunkText, which SplitBySentence falls back to, terminates: it
\* advances by chunk_size - overlap >= 1 characters per step, and every
\* character lies in at least one window before trimming.
C30_WindowLoopTerminates ==
    /\ []WindowsCover
    /\ [][AdvancesByStride]_vars
    /\ <>wDone

\* the loop has ended after several windows on a Chunker asked for an overlap
\* above its chunk size
C30_Witness ==
    /\ wDone
    /\ wOpts.asked > wOpts.ChunkSize
    /\ Len(windows) >= 3
    /\ \A i \in 1..Len(wRunes) : InWindow(i)

====
